---- MODULE Spec2Model ----
(***************************************************************************)
(* Model of the pinocchio-stake program: the merge classifier and merge    *)
(* engine (helpers/merge.rs; state/merge.rs is a second copy of the same   *)
(* logic over byte arrays), the process_merge instruction                  *)
(* (instruction/merge.rs) and the accounting they rest on.                 *)
(*                                                                         *)
(* u64 values are scaled to two digits of base ByteBase (the bytes of the   *)
(* value), so to the range 0..U64_MAX with U64_MAX = ByteBase^2 - 1, and   *)
(* u128 values to 0..U128_MAX with U128_MAX = (U64_MAX + 1)^2 - 1, so that *)
(* checked arithmetic overflows where the program's does and the byte      *)
(* order of a stored value matters as it does in the program.              *)
(***************************************************************************)
EXTENDS Integers, FiniteSets, Sequences, TLC

VARIABLES accounts, clock, stake_history, call

vars == <<accounts, clock, stake_history, call>>

(***************************************************************************)
(* Bounds of the model.                                                    *)
(***************************************************************************)
\* The number of values of one byte, scaled; a u64 has two bytes.
ByteBase == 32
\* u64::MAX, scaled: the largest value of a u64 field.
U64_MAX == ByteBase * ByteBase - 1
\* The clock's epoch runs over 0..MaxEpoch.
MaxEpoch == 3
\* The clock's unix timestamp runs over 0..MaxTime.
MaxTime == 1

U128_MAX == (U64_MAX + 1) * (U64_MAX + 1) - 1

\* Epoch::MAX, the "not deactivating" sentinel of Delegation.deactivation_epoch.
EPOCH_MAX == U64_MAX

(***************************************************************************)
(* The bytes of a u64.  A stored [u8; 8] field is written in the records   *)
(* of the model as the number its bytes read in little-endian order, which *)
(* is how the program reads every such field (u64::from_le_bytes).         *)
(***************************************************************************)
to_le_bytes(x) == <<x % ByteBase, x \div ByteBase>>
to_be_bytes(x) == <<x \div ByteBase, x % ByteBase>>
from_le_bytes(b) == b[1] + b[2] * ByteBase
bytes_to_u64(bytes) == from_le_bytes(bytes)

(***************************************************************************)
(* Option and Result values.                                               *)
(***************************************************************************)
None == [some |-> FALSE]
Some(x) == [some |-> TRUE, val |-> x]
Ok(x) == [ok |-> TRUE, val |-> x]
Err(e) == [ok |-> FALSE, err |-> e]
Unit == "unit"

Max(a, b) == IF a >= b THEN a ELSE b

(***************************************************************************)
(* Public keys.  AccountIds are the stake accounts of the model, named by  *)
(* their own key; DEFAULT_PUBKEY is Pubkey::default(), the all-zero key.   *)
(***************************************************************************)
AccountIds == {"A", "B"}
DEFAULT_PUBKEY == "default"
VoteKeys == {"V1", "V2"}

(***************************************************************************)
(* helpers/mod.rs: checked_add.                                            *)
(***************************************************************************)
\* Mutant: the sum wraps around instead of failing.
checked_add_Wrapping(a, b) == Ok((a + b) % (U64_MAX + 1))

checked_add(a, b) ==
    IF a + b <= U64_MAX THEN Ok(a + b) ELSE Err("InsufficientFunds")

(***************************************************************************)
(* StakeFlags: a set of flag bits.                                         *)
(***************************************************************************)
MUST_FULLY_ACTIVATE == "MUST_FULLY_ACTIVATE_BEFORE_DEACTIVATION_IS_PERMITTED"
StakeFlagsEmpty == {}
StakeFlagsUnion(a, b) == a \cup b

(***************************************************************************)
(* Lockup::is_in_force(clock, custodian): the lockup is in force while the *)
(* clock is before its unix timestamp or before its epoch, unless the      *)
(* custodian given is the lockup's own.                                    *)
(***************************************************************************)
LockupIsInForce(lockup, clk, custodian) ==
    IF custodian.some /\ custodian.val = lockup.custodian
    THEN FALSE
    ELSE lockup.unix_timestamp > clk.unix_timestamp \/ lockup.epoch > clk.epoch

(***************************************************************************)
(* Authorized::check(signers, role): the role's key is among the signers.  *)
(***************************************************************************)
AuthorizedCheck(authorized, signers, role) ==
    IF role = "Staker"
    THEN IF authorized.staker \in signers THEN Ok(Unit)
         ELSE Err("MissingRequiredSignature")
    ELSE IF authorized.withdrawer \in signers THEN Ok(Unit)
         ELSE Err("MissingRequiredSignature")

(***************************************************************************)
(* consts.rs: the warmup/cooldown rates, in percent, and the epoch from    *)
(* which the new rate applies.                                             *)
(***************************************************************************)
DEFAULT_WARMUP_COOLDOWN_RATE == 25
NEW_WARMUP_COOLDOWN_RATE == 9
PERPETUAL_NEW_WARMUP_COOLDOWN_RATE_EPOCH == Some(0)

(***************************************************************************)
(* state/utils.rs: warmup_cooldown_rate, as a percentage.                  *)
(***************************************************************************)
warmup_cooldown_rate(current_epoch, new_rate_activation_epoch) ==
    LET activation == IF new_rate_activation_epoch.some
                      THEN new_rate_activation_epoch.val
                      ELSE U64_MAX
    IN  IF current_epoch < activation
        THEN DEFAULT_WARMUP_COOLDOWN_RATE
        ELSE NEW_WARMUP_COOLDOWN_RATE

(***************************************************************************)
(* The stake history: one snapshot {effective, activating, deactivating}   *)
(* per epoch, or NoEntry.  StakeHistorySysvar(current_epoch) serves only   *)
(* the epochs before current_epoch.                                        *)
(***************************************************************************)
NoEntry == [present |-> FALSE]
HistoryEntry(e, a, d) ==
    [present |-> TRUE, effective |-> e, activating |-> a, deactivating |-> d]

StakeHistoryGetEntry(history, current_epoch, target_epoch) ==
    IF /\ target_epoch < current_epoch
       /\ target_epoch \in DOMAIN history
       /\ history[target_epoch].present
    THEN Some(history[target_epoch])
    ELSE None

(***************************************************************************)
(* Delegation accounting (spec section 4.2).  The share of the pool's      *)
(* newly (de)activated stake a delegation takes in one epoch is            *)
(*   max(1, floor(weight * rate * pool_effective)),                        *)
(* with weight = own remaining stake / pool activating (deactivating).     *)
(***************************************************************************)
NewlyMoved(own, pool_effective, pool_moving, rate) ==
    Max(1, (own * pool_effective * rate) \div (pool_moving * 100))

RECURSIVE ActivationWalk_Unsaturated(_, _, _, _, _, _, _)
ActivationWalk_Unsaturated(d, target_epoch, history, current, cutover, prev_epoch, effective) ==
    LET prev == history[prev_epoch]
        current_epoch == prev_epoch + 1
        newly == NewlyMoved(d.stake - effective, prev.effective, prev.activating,
                            warmup_cooldown_rate(prev_epoch, cutover))
        grown == effective + newly
    IN  IF prev.activating = 0 THEN effective
        ELSE IF current_epoch >= target_epoch
                \/ current_epoch >= d.deactivation_epoch THEN grown
        ELSE IF StakeHistoryGetEntry(history, current, current_epoch).some
        THEN ActivationWalk_Unsaturated(d, target_epoch, history, current, cutover,
                                        current_epoch, grown)
        ELSE grown

RECURSIVE ActivationWalk(_, _, _, _, _, _, _)
ActivationWalk(d, target_epoch, history, current, cutover, prev_epoch, effective) ==
    LET prev == history[prev_epoch]
        current_epoch == prev_epoch + 1
        newly == NewlyMoved(d.stake - effective, prev.effective, prev.activating,
                            warmup_cooldown_rate(prev_epoch, cutover))
        grown == effective + newly
    IN  IF prev.activating = 0 THEN effective
        ELSE IF grown >= d.stake THEN d.stake
        ELSE IF current_epoch >= target_epoch
                \/ current_epoch >= d.deactivation_epoch THEN grown
        ELSE IF StakeHistoryGetEntry(history, current, current_epoch).some
        THEN ActivationWalk(d, target_epoch, history, current, cutover,
                            current_epoch, grown)
        ELSE grown

StakeAndActivating_SkipsActivationEpoch(d, target_epoch, history, current, cutover) ==
    IF d.activation_epoch = d.deactivation_epoch THEN <<0, 0>>
    ELSE IF target_epoch < d.activation_epoch THEN <<0, 0>>
    ELSE IF StakeHistoryGetEntry(history, current, d.activation_epoch).some
    THEN LET eff == ActivationWalk(d, target_epoch, history, current, cutover,
                                   d.activation_epoch, 0)
         IN  <<eff, d.stake - eff>>
    ELSE <<d.stake, 0>>

StakeAndActivating_NotYetActiveCounts(d, target_epoch, history, current, cutover) ==
    IF d.activation_epoch = d.deactivation_epoch THEN <<0, 0>>
    ELSE IF target_epoch = d.activation_epoch THEN <<0, d.stake>>
    ELSE <<d.stake, 0>>

\* <<effective, activating>> of a delegation at target_epoch.
StakeAndActivating(d, target_epoch, history, current, cutover) ==
    IF d.activation_epoch = d.deactivation_epoch THEN <<0, 0>>
    ELSE IF target_epoch = d.activation_epoch THEN <<0, d.stake>>
    ELSE IF target_epoch < d.activation_epoch THEN <<0, 0>>
    ELSE IF StakeHistoryGetEntry(history, current, d.activation_epoch).some
    THEN LET eff == ActivationWalk(d, target_epoch, history, current, cutover,
                                   d.activation_epoch, 0)
         IN  <<eff, d.stake - eff>>
    ELSE <<d.stake, 0>>

RECURSIVE DeactivationWalk_Unsaturated(_, _, _, _, _, _, _)
DeactivationWalk_Unsaturated(d, target_epoch, history, current, cutover, prev_epoch, effective) ==
    LET prev == history[prev_epoch]
        current_epoch == prev_epoch + 1
        newly == NewlyMoved(effective, prev.effective, prev.deactivating,
                            warmup_cooldown_rate(prev_epoch, cutover))
        shrunk == effective - newly
    IN  IF prev.deactivating = 0 THEN effective
        ELSE IF shrunk = 0 THEN 0
        ELSE IF current_epoch >= target_epoch THEN shrunk
        ELSE IF StakeHistoryGetEntry(history, current, current_epoch).some
        THEN DeactivationWalk_Unsaturated(d, target_epoch, history, current, cutover,
                                          current_epoch, shrunk)
        ELSE shrunk

RECURSIVE DeactivationWalk(_, _, _, _, _, _, _)
DeactivationWalk(d, target_epoch, history, current, cutover, prev_epoch, effective) ==
    LET prev == history[prev_epoch]
        current_epoch == prev_epoch + 1
        newly == NewlyMoved(effective, prev.effective, prev.deactivating,
                            warmup_cooldown_rate(prev_epoch, cutover))
        shrunk == IF effective > newly THEN effective - newly ELSE 0
    IN  IF prev.deactivating = 0 THEN effective
        ELSE IF shrunk = 0 THEN 0
        ELSE IF current_epoch >= target_epoch THEN shrunk
        ELSE IF StakeHistoryGetEntry(history, current, current_epoch).some
        THEN DeactivationWalk(d, target_epoch, history, current, cutover,
                              current_epoch, shrunk)
        ELSE shrunk

StakeActivationStatus(e, a, d) ==
    [effective |-> e, activating |-> a, deactivating |-> d]

\* Delegation::stake_activating_and_deactivating(target_epoch, history, cutover).
stake_activating_and_deactivating(d, target_epoch, history, current, cutover) ==
    LET ea == StakeAndActivating(d, target_epoch, history, current, cutover)
    IN  IF target_epoch < d.deactivation_epoch
        THEN StakeActivationStatus(ea[1], ea[2], 0)
        ELSE IF target_epoch = d.deactivation_epoch
        THEN StakeActivationStatus(ea[1], 0, ea[1])
        ELSE IF StakeHistoryGetEntry(history, current, d.deactivation_epoch).some
        THEN LET eff == DeactivationWalk(d, target_epoch, history, current, cutover,
                                         d.deactivation_epoch, ea[1])
             IN  StakeActivationStatus(eff, 0, eff)
        ELSE StakeActivationStatus(0, 0, 0)

(***************************************************************************)
(* StakeStateV2 (the stored record) and MergeKind (helpers/merge.rs).      *)
(***************************************************************************)
Uninitialized == [tag |-> "Uninitialized"]
RewardsPool == [tag |-> "RewardsPool"]
Initialized(meta) == [tag |-> "Initialized", meta |-> meta]
StakeState(meta, stake, flags) ==
    [tag |-> "Stake", meta |-> meta, stake |-> stake, flags |-> flags]

Inactive(meta, lamports, flags) ==
    [kind |-> "Inactive", meta |-> meta, lamports |-> lamports, flags |-> flags]
ActivationEpoch(meta, stake, flags) ==
    [kind |-> "ActivationEpoch", meta |-> meta, stake |-> stake, flags |-> flags]
FullyActive(meta, stake) ==
    [kind |-> "FullyActive", meta |-> meta, stake |-> stake]

\* MergeKind::meta
MergeKindMeta(k) == k.meta

\* MergeKind::active_stake
active_stake(k) == IF k.kind = "Inactive" THEN None ELSE Some(k.stake)

\* Mutant: the (0, _, _) arm comes before the (0, 0, 0) arm.
ClassifyStatus_ArmsSwapped(meta, stake, stake_flags, stake_lamports, status) ==
    IF status.effective = 0
    THEN Ok(ActivationEpoch(meta, stake, stake_flags))
    ELSE IF status.activating = 0 /\ status.deactivating = 0
    THEN Ok(FullyActive(meta, stake))
    ELSE Err("MergeTransientStake")

\* Mutant: the last arm takes every record with effective stake for active.
ClassifyStatus_NoTransient(meta, stake, stake_flags, stake_lamports, status) ==
    IF status.effective = 0 /\ status.activating = 0 /\ status.deactivating = 0
    THEN Ok(Inactive(meta, stake_lamports, stake_flags))
    ELSE IF status.effective = 0
    THEN Ok(ActivationEpoch(meta, stake, stake_flags))
    ELSE Ok(FullyActive(meta, stake))

\* The match of get_if_mergeable on (effective, activating, deactivating).
ClassifyStatus(meta, stake, stake_flags, stake_lamports, status) ==
    IF status.effective = 0 /\ status.activating = 0 /\ status.deactivating = 0
    THEN Ok(Inactive(meta, stake_lamports, stake_flags))
    ELSE IF status.effective = 0
    THEN Ok(ActivationEpoch(meta, stake, stake_flags))
    ELSE IF status.activating = 0 /\ status.deactivating = 0
    THEN Ok(FullyActive(meta, stake))
    ELSE Err("MergeTransientStake")

\* MergeKind::get_if_mergeable; stake_history is StakeHistorySysvar(clock.epoch).
get_if_mergeable(stake_state, stake_lamports, clk, history) ==
    IF stake_state.tag = "Stake"
    THEN ClassifyStatus(stake_state.meta, stake_state.stake, stake_state.flags,
                        stake_lamports,
                        stake_activating_and_deactivating(
                            stake_state.stake.delegation, clk.epoch, history,
                            clk.epoch, PERPETUAL_NEW_WARMUP_COOLDOWN_RATE_EPOCH))
    ELSE IF stake_state.tag = "Initialized"
    THEN Ok(Inactive(stake_state.meta, stake_lamports, StakeFlagsEmpty))
    ELSE Err("InvalidAccountData")

\* Mutant: the whole metas are compared, the rent_exempt_reserve included.
metas_can_merge_WithReserve(stake, source, clk) ==
    LET can_merge_lockups ==
            \/ stake.lockup = source.lockup
            \/ /\ ~LockupIsInForce(stake.lockup, clk, None)
               /\ ~LockupIsInForce(source.lockup, clk, None)
    IN  IF /\ stake.authorized = source.authorized
           /\ stake.rent_exempt_reserve = source.rent_exempt_reserve
           /\ can_merge_lockups
        THEN Ok(Unit)
        ELSE Err("MergeMismatch")

\* MergeKind::metas_can_merge
metas_can_merge(stake, source, clk) ==
    LET can_merge_lockups ==
            \/ stake.lockup = source.lockup
            \/ /\ ~LockupIsInForce(stake.lockup, clk, None)
               /\ ~LockupIsInForce(source.lockup, clk, None)
    IN  IF stake.authorized = source.authorized /\ can_merge_lockups
        THEN Ok(Unit)
        ELSE Err("MergeMismatch")

\* Mutant: one delegation that is not deactivating is enough.
active_delegations_can_merge_EitherSentinel(stake, source) ==
    IF stake.voter_pubkey # source.voter_pubkey
    THEN Err("MergeMismatch")
    ELSE IF stake.deactivation_epoch = EPOCH_MAX
            \/ source.deactivation_epoch = EPOCH_MAX
    THEN Ok(Unit)
    ELSE Err("MergeMismatch")

\* MergeKind::active_delegations_can_merge
active_delegations_can_merge(stake, source) ==
    IF stake.voter_pubkey # source.voter_pubkey
    THEN Err("MergeMismatch")
    ELSE IF stake.deactivation_epoch = EPOCH_MAX
            /\ source.deactivation_epoch = EPOCH_MAX
    THEN Ok(Unit)
    ELSE Err("MergeMismatch")

\* Mutant: the quotient is rounded down, the numerator not raised by total - 1.
stake_weighted_credits_observed_Floor(stake, absorbed_lamports, absorbed_credits_observed) ==
    IF stake.credits_observed = absorbed_credits_observed
    THEN Some(stake.credits_observed)
    ELSE LET sum == checked_add(stake.delegation.stake, absorbed_lamports)
             weighted == stake.credits_observed * stake.delegation.stake
                         + absorbed_credits_observed * absorbed_lamports
         IN  IF ~sum.ok \/ sum.val = 0 THEN None
             ELSE Some(weighted \div sum.val)

\* Mutant: equal credits take the weighted average like any other.
stake_weighted_credits_observed_NoShortcut(stake, absorbed_lamports, absorbed_credits_observed) ==
    LET sum == checked_add(stake.delegation.stake, absorbed_lamports)
        weighted == stake.credits_observed * stake.delegation.stake
                    + absorbed_credits_observed * absorbed_lamports
    IN  IF ~sum.ok \/ weighted + sum.val < 1 \/ sum.val = 0 THEN None
        ELSE Some((weighted + sum.val - 1) \div sum.val)

\* Mutant: the numerator is raised by total, one more than the ceiling needs.
stake_weighted_credits_observed_PastCeiling(stake, absorbed_lamports, absorbed_credits_observed) ==
    IF stake.credits_observed = absorbed_credits_observed
    THEN Some(stake.credits_observed)
    ELSE LET sum == checked_add(stake.delegation.stake, absorbed_lamports)
             weighted == stake.credits_observed * stake.delegation.stake
                         + absorbed_credits_observed * absorbed_lamports
         IN  IF ~sum.ok \/ sum.val = 0 THEN None
             ELSE IF (weighted + sum.val) \div sum.val > U64_MAX THEN None
             ELSE Some((weighted + sum.val) \div sum.val)

\* stake_weighted_credits_observed: None on overflow.
stake_weighted_credits_observed(stake, absorbed_lamports, absorbed_credits_observed) ==
    IF stake.credits_observed = absorbed_credits_observed
    THEN Some(stake.credits_observed)
    ELSE LET sum == checked_add(stake.delegation.stake, absorbed_lamports)
             total_stake == sum.val
             stake_weighted_credits ==
                 stake.credits_observed * stake.delegation.stake
             absorbed_weighted_credits ==
                 absorbed_credits_observed * absorbed_lamports
             weighted == stake_weighted_credits + absorbed_weighted_credits
             total_weighted_credits == weighted + total_stake - 1
         IN  IF ~sum.ok THEN None
             ELSE IF stake_weighted_credits > U128_MAX THEN None
             ELSE IF absorbed_weighted_credits > U128_MAX THEN None
             ELSE IF weighted > U128_MAX THEN None
             ELSE IF weighted + total_stake > U128_MAX THEN None
             ELSE IF weighted + total_stake < 1 THEN None
             ELSE IF total_stake = 0 THEN None
             ELSE IF total_weighted_credits \div total_stake > U64_MAX THEN None
             ELSE Some(total_weighted_credits \div total_stake)

\* merge_delegation_stake_and_credits_observed: the new Stake, or the error.
merge_delegation_stake_and_credits_observed(stake, absorbed_lamports, absorbed_credits_observed) ==
    LET credits == stake_weighted_credits_observed(
                       stake, absorbed_lamports, absorbed_credits_observed)
        sum == checked_add(stake.delegation.stake, absorbed_lamports)
    IN  IF ~credits.some THEN Err("ArithmeticOverflow")
        ELSE IF ~sum.ok THEN sum
        ELSE Ok([delegation |-> [stake.delegation EXCEPT !.stake = sum.val],
                 credits_observed |-> credits.val])

\* Mutant: only the source's lamports above its reserve are staked.
MergeActivationEpochInactive_LessReserve(self, source) ==
    LET sum == checked_add(self.stake.delegation.stake,
                           source.lamports - source.meta.rent_exempt_reserve)
    IN  IF ~sum.ok THEN sum
        ELSE Ok(Some(StakeState(
                 self.meta,
                 [self.stake EXCEPT !.delegation.stake = sum.val],
                 StakeFlagsUnion(self.flags, source.flags))))

\* The (ActivationEpoch, Inactive) row of merge.
MergeActivationEpochInactive(self, source) ==
    LET sum == checked_add(self.stake.delegation.stake, source.lamports)
    IN  IF ~sum.ok THEN sum
        ELSE Ok(Some(StakeState(
                 self.meta,
                 [self.stake EXCEPT !.delegation.stake = sum.val],
                 StakeFlagsUnion(self.flags, source.flags))))

\* Mutant: the source's rent_exempt_reserve is left out of the absorbed amount.
MergeActivationEpochs_OmitsReserve(self, source) ==
    LET merged == merge_delegation_stake_and_credits_observed(
                      self.stake, source.stake.delegation.stake,
                      source.stake.credits_observed)
    IN  IF ~merged.ok THEN merged
        ELSE Ok(Some(StakeState(self.meta, merged.val,
                                StakeFlagsUnion(self.flags, source.flags))))

\* Mutant: the source's flags are dropped.
MergeActivationEpochs_DropsFlags(self, source) ==
    LET source_lamports == checked_add(source.meta.rent_exempt_reserve,
                                       source.stake.delegation.stake)
        merged == merge_delegation_stake_and_credits_observed(
                      self.stake, source_lamports.val,
                      source.stake.credits_observed)
    IN  IF ~source_lamports.ok THEN source_lamports
        ELSE IF ~merged.ok THEN merged
        ELSE Ok(Some(StakeState(self.meta, merged.val, self.flags)))

\* The (ActivationEpoch, ActivationEpoch) row of merge.
MergeActivationEpochs(self, source) ==
    LET source_lamports == checked_add(source.meta.rent_exempt_reserve,
                                       source.stake.delegation.stake)
        merged == merge_delegation_stake_and_credits_observed(
                      self.stake, source_lamports.val,
                      source.stake.credits_observed)
    IN  IF ~source_lamports.ok THEN source_lamports
        ELSE IF ~merged.ok THEN merged
        ELSE Ok(Some(StakeState(self.meta, merged.val,
                                StakeFlagsUnion(self.flags, source.flags))))

\* Mutant: the source's rent_exempt_reserve is staked too.
MergeFullyActives_StakesReserve(self, source) ==
    LET merged == merge_delegation_stake_and_credits_observed(
                      self.stake,
                      source.meta.rent_exempt_reserve + source.stake.delegation.stake,
                      source.stake.credits_observed)
    IN  IF ~merged.ok THEN merged
        ELSE Ok(Some(StakeState(self.meta, merged.val, StakeFlagsEmpty)))

\* The (FullyActive, FullyActive) row of merge.
MergeFullyActives(self, source) ==
    LET merged == merge_delegation_stake_and_credits_observed(
                      self.stake, source.stake.delegation.stake,
                      source.stake.credits_observed)
    IN  IF ~merged.ok THEN merged
        ELSE Ok(Some(StakeState(self.meta, merged.val, StakeFlagsEmpty)))

\* Mutant: an Inactive destination takes over an ActivationEpoch source's stake.
MergeCaseTable_InactiveAbsorbs(self, source) ==
    IF self.kind = "Inactive" /\ source.kind = "Inactive" THEN Ok(None)
    ELSE IF self.kind = "Inactive" /\ source.kind = "ActivationEpoch"
    THEN Ok(Some(StakeState(self.meta, source.stake, source.flags)))
    ELSE IF self.kind = "ActivationEpoch" /\ source.kind = "Inactive"
    THEN MergeActivationEpochInactive(self, source)
    ELSE IF self.kind = "ActivationEpoch" /\ source.kind = "ActivationEpoch"
    THEN MergeActivationEpochs(self, source)
    ELSE IF self.kind = "FullyActive" /\ source.kind = "FullyActive"
    THEN MergeFullyActives(self, source)
    ELSE Err("MergeMismatch")

\* Mutant: a FullyActive destination also absorbs an ActivationEpoch source.
MergeCaseTable_MixedKinds(self, source) ==
    IF self.kind = "Inactive" /\ source.kind = "Inactive" THEN Ok(None)
    ELSE IF self.kind = "Inactive" /\ source.kind = "ActivationEpoch" THEN Ok(None)
    ELSE IF self.kind = "ActivationEpoch" /\ source.kind = "Inactive"
    THEN MergeActivationEpochInactive(self, source)
    ELSE IF self.kind = "ActivationEpoch" /\ source.kind = "ActivationEpoch"
    THEN MergeActivationEpochs(self, source)
    ELSE IF self.kind = "FullyActive" /\ source.kind # "Inactive"
    THEN MergeFullyActives(self, source)
    ELSE Err("MergeMismatch")

\* The match (self, source) of merge.
MergeCaseTable(self, source) ==
    IF self.kind = "Inactive" /\ source.kind = "Inactive" THEN Ok(None)
    ELSE IF self.kind = "Inactive" /\ source.kind = "ActivationEpoch" THEN Ok(None)
    ELSE IF self.kind = "ActivationEpoch" /\ source.kind = "Inactive"
    THEN MergeActivationEpochInactive(self, source)
    ELSE IF self.kind = "ActivationEpoch" /\ source.kind = "ActivationEpoch"
    THEN MergeActivationEpochs(self, source)
    ELSE IF self.kind = "FullyActive" /\ source.kind = "FullyActive"
    THEN MergeFullyActives(self, source)
    ELSE Err("MergeMismatch")

\* The delegation check of merge: made only when both sides carry a stake.
MergeDelegationsCheck(self, source) ==
    IF active_stake(self).some /\ active_stake(source).some
    THEN active_delegations_can_merge(active_stake(self).val.delegation,
                                      active_stake(source).val.delegation)
    ELSE Ok(Unit)

\* Mutant: the metas are checked only after the case table has succeeded.
merge_TableFirst(self, source, clk) ==
    LET metas == metas_can_merge(MergeKindMeta(self), MergeKindMeta(source), clk)
        delegations == MergeDelegationsCheck(self, source)
        merged == MergeCaseTable(self, source)
    IN  IF ~delegations.ok THEN delegations
        ELSE IF ~merged.ok THEN merged
        ELSE IF ~metas.ok THEN metas
        ELSE merged

\* MergeKind::merge: Ok(None), Ok(Some(new destination record)) or the error.
merge(self, source, clk) ==
    LET metas == metas_can_merge(MergeKindMeta(self), MergeKindMeta(source), clk)
        delegations == MergeDelegationsCheck(self, source)
    IN  IF ~metas.ok THEN metas
        ELSE IF ~delegations.ok THEN delegations
        ELSE MergeCaseTable(self, source)

(***************************************************************************)
(* Accounts: every stake account has a stored record and a lamport         *)
(* balance.                                                                *)
(***************************************************************************)
Account(state, lamports) == [state |-> state, lamports |-> lamports]

\* state/mod.rs: get_stake_state / set_stake_state on a well-formed account.
get_stake_state(accs, id) == accs[id].state
set_stake_state(accs, id, new_state) == [accs EXCEPT ![id].state = new_state]

\* state/mod.rs: relocate_lamports.  The source is debited before the
\* destination is credited.
relocate_lamports(accs, source, destination, lamports) ==
    LET debited == [accs EXCEPT ![source].lamports = @ - lamports]
    IN  IF accs[source].lamports < lamports
        THEN [result |-> Err("InsufficientFunds"), accounts |-> accs]
        ELSE IF debited[destination].lamports + lamports > U64_MAX
        THEN [result |-> Err("ArithmeticOverflow"), accounts |-> debited]
        ELSE [result |-> Ok(Unit),
              accounts |-> [debited EXCEPT ![destination].lamports = @ + lamports]]

\* state/utils.rs: collect_signers fills an array of MAX_SIGNERS default keys
\* with the signers' keys; the whole array is what process_merge checks.
SignersArr(signers) == signers \cup {DEFAULT_PUBKEY}

(***************************************************************************)
(* instruction/merge.rs: process_merge.  accounts_len is the length of the *)
(* account list (destination, source, clock, stake history, ...); signers  *)
(* are the keys of the accounts of the list that signed.                   *)
(***************************************************************************)
ProcessMergeWrite(accs, dest, src, merged) ==
    LET written == IF merged.some
                   THEN set_stake_state(accs, dest, merged.val)
                   ELSE accs
        deinitialized == set_stake_state(written, src, Uninitialized)
    IN  relocate_lamports(deinitialized, src, dest, deinitialized[src].lamports)

process_merge_NoIdentityCheck(accs, clk, history, dest, src, signers, accounts_len) ==
    LET fail(e) == [result |-> e, accounts |-> accs]
        destination_merge_kind ==
            get_if_mergeable(get_stake_state(accs, dest), accs[dest].lamports,
                             clk, history)
        authorized ==
            AuthorizedCheck(MergeKindMeta(destination_merge_kind.val).authorized,
                            SignersArr(signers), "Staker")
        source_merge_kind ==
            get_if_mergeable(get_stake_state(accs, src), accs[src].lamports,
                             clk, history)
        merged == merge(destination_merge_kind.val, source_merge_kind.val, clk)
    IN  IF accounts_len # 4 THEN fail(Err("NotEnoughAccountKeys"))
        ELSE IF ~destination_merge_kind.ok THEN fail(destination_merge_kind)
        ELSE IF ~authorized.ok THEN fail(Err("MissingRequiredSignature"))
        ELSE IF ~source_merge_kind.ok THEN fail(source_merge_kind)
        ELSE IF ~merged.ok THEN fail(merged)
        ELSE ProcessMergeWrite(accs, dest, src, merged.val)

process_merge(accs, clk, history, dest, src, signers, accounts_len) ==
    LET fail(e) == [result |-> e, accounts |-> accs]
        destination_merge_kind ==
            get_if_mergeable(get_stake_state(accs, dest), accs[dest].lamports,
                             clk, history)
        authorized ==
            AuthorizedCheck(MergeKindMeta(destination_merge_kind.val).authorized,
                            SignersArr(signers), "Staker")
        source_merge_kind ==
            get_if_mergeable(get_stake_state(accs, src), accs[src].lamports,
                             clk, history)
        merged == merge(destination_merge_kind.val, source_merge_kind.val, clk)
    IN  IF accounts_len # 4 THEN fail(Err("NotEnoughAccountKeys"))
        ELSE IF src = dest THEN fail(Err("InvalidArgument"))
        ELSE IF ~destination_merge_kind.ok THEN fail(destination_merge_kind)
        ELSE IF ~authorized.ok THEN fail(Err("MissingRequiredSignature"))
        ELSE IF ~source_merge_kind.ok THEN fail(source_merge_kind)
        ELSE IF ~merged.ok THEN fail(merged)
        ELSE ProcessMergeWrite(accs, dest, src, merged.val)

(***************************************************************************)
(* state/utils.rs: redelegate_stake.  stake_lamports and epoch are the     *)
(* [u8; 8] arguments, credits is vote_state.credits(), and (history,       *)
(* current_epoch) is the StakeHistorySysvar.  The result carries the Stake *)
(* as the call leaves it.                                                  *)
(***************************************************************************)
\* Stake::stake(epoch, history, new_rate_activation_epoch): the effective
\* stake of the delegation at the epoch.
StakeStake(stake, epoch, history, current_epoch, cutover) ==
    stake_activating_and_deactivating(stake.delegation, epoch, history,
                                      current_epoch, cutover).effective

\* Mutant: rescinding restarts the activation at the deactivation epoch.
RedelegateRescind_RestartsActivation(stake) ==
    [stake EXCEPT !.delegation.activation_epoch = stake.delegation.deactivation_epoch,
                  !.delegation.deactivation_epoch = from_le_bytes(to_le_bytes(U64_MAX))]

\* The rescinded deactivation (utils.rs:577).
RedelegateRescind(stake) ==
    [stake EXCEPT !.delegation.deactivation_epoch =
                      from_le_bytes(to_le_bytes(U64_MAX))]

\* The full overwrite (utils.rs:588-592).
RedelegateOverwrite(stake, stake_lamports, voter_pubkey, credits, epoch) ==
    [delegation |-> [voter_pubkey |-> voter_pubkey,
                     stake |-> from_le_bytes(stake_lamports),
                     activation_epoch |-> from_le_bytes(epoch),
                     deactivation_epoch |-> from_le_bytes(to_le_bytes(U64_MAX))],
     credits_observed |-> from_le_bytes(to_be_bytes(credits))]

\* Mutant: a deactivation is rescinded at any epoch, not only at the
\* deactivation epoch.
redelegate_stake_AnyEpoch(stake, stake_lamports, voter_pubkey, credits, epoch, history, current_epoch) ==
    IF StakeStake(stake, from_le_bytes(epoch), history, current_epoch,
                  PERPETUAL_NEW_WARMUP_COOLDOWN_RATE_EPOCH) # 0
    THEN IF stake.delegation.voter_pubkey = voter_pubkey
         THEN [result |-> Ok(Unit), stake |-> RedelegateRescind(stake)]
         ELSE [result |-> Err("TooSoonToRedelegate"), stake |-> stake]
    ELSE [result |-> Ok(Unit),
          stake |-> RedelegateOverwrite(stake, stake_lamports, voter_pubkey,
                                        credits, epoch)]

redelegate_stake(stake, stake_lamports, voter_pubkey, credits, epoch, history, current_epoch) ==
    IF StakeStake(stake, from_le_bytes(epoch), history, current_epoch,
                  PERPETUAL_NEW_WARMUP_COOLDOWN_RATE_EPOCH) # 0
    THEN IF /\ stake.delegation.voter_pubkey = voter_pubkey
            /\ epoch = to_le_bytes(stake.delegation.deactivation_epoch)
         THEN [result |-> Ok(Unit), stake |-> RedelegateRescind(stake)]
         ELSE [result |-> Err("TooSoonToRedelegate"), stake |-> stake]
    ELSE [result |-> Ok(Unit),
          stake |-> RedelegateOverwrite(stake, stake_lamports, voter_pubkey,
                                        credits, epoch)]

(***************************************************************************)
(* instruction/delegate_stake.rs: process_delegate, with the helpers of    *)
(* state/utils.rs it calls.  vote_key and credits are the key of the vote  *)
(* account and the credits of its vote state; signers are the keys of the  *)
(* accounts of the list that signed.                                       *)
(***************************************************************************)
saturating_sub(a, b) == IF a >= b THEN a - b ELSE 0

\* get_minimum_delegation, with FEATURE_STAKE_RAISE_MINIMUM_DELEGATION_TO_1_SOL
\* off.
get_minimum_delegation == 1

\* validate_delegated_amount: the stake amount as the bytes it returns.
validate_delegated_amount(accs, id, meta) ==
    LET stake_amount ==
            saturating_sub(accs[id].lamports, bytes_to_u64(
                               to_le_bytes(meta.rent_exempt_reserve)))
    IN  IF stake_amount < get_minimum_delegation
        THEN Err("InsufficientDelegation")
        ELSE Ok(to_be_bytes(stake_amount))

\* Delegation::new(voter_pubkey, stake, activation_epoch).
DelegationNew(voter_pubkey, stake, activation_epoch) ==
    [voter_pubkey |-> voter_pubkey,
     stake |-> from_le_bytes(to_le_bytes(stake)),
     activation_epoch |-> from_le_bytes(activation_epoch),
     deactivation_epoch |-> from_le_bytes(to_le_bytes(U64_MAX))]

new_stake(stake, voter_pubkey, credits, activation_epoch) ==
    [delegation |-> DelegationNew(voter_pubkey, bytes_to_u64(stake),
                                  activation_epoch),
     credits_observed |-> from_le_bytes(to_le_bytes(credits))]

\* The Initialized arm of process_delegate.
ProcessDelegateInitialized(accs, clk, id, meta, vote_key, credits, signers) ==
    LET fail(e) == [result |-> e, accounts |-> accs]
        validated == validate_delegated_amount(accs, id, meta)
        stake == new_stake(validated.val, vote_key, credits, to_le_bytes(clk.epoch))
    IN  IF ~AuthorizedCheck(meta.authorized, SignersArr(signers), "Staker").ok
        THEN fail(Err("MissingRequiredSignature"))
        ELSE IF ~validated.ok THEN fail(validated)
        ELSE [result |-> Ok(Unit),
              accounts |-> set_stake_state(
                               accs, id, StakeState(meta, stake, StakeFlagsEmpty))]

\* The Stake arm of process_delegate.
ProcessDelegateStake(accs, clk, history, id, state, vote_key, credits, signers) ==
    LET fail(e) == [result |-> e, accounts |-> accs]
        validated == validate_delegated_amount(accs, id, state.meta)
        redelegated ==
            redelegate_stake(state.stake, validated.val, vote_key, credits,
                             to_le_bytes(clk.epoch), history,
                             bytes_to_u64(to_le_bytes(clk.epoch)))
    IN  IF ~AuthorizedCheck(state.meta.authorized, SignersArr(signers),
                            "Staker").ok
        THEN fail(Err("MissingRequiredSignature"))
        ELSE IF ~validated.ok THEN fail(validated)
        ELSE IF ~redelegated.result.ok THEN fail(redelegated.result)
        ELSE [result |-> Ok(Unit),
              accounts |-> set_stake_state(
                               accs, id,
                               StakeState(state.meta, redelegated.stake,
                                          state.flags))]

process_delegate_AcceptsAnyTag(accs, clk, history, id, vote_key, credits, signers, accounts_len) ==
    LET state == get_stake_state(accs, id)
    IN  IF accounts_len < 5
        THEN [result |-> Err("NotEnoughAccountKeys"), accounts |-> accs]
        ELSE IF state.tag = "Initialized"
        THEN ProcessDelegateInitialized(accs, clk, id, state.meta, vote_key,
                                        credits, signers)
        ELSE IF state.tag = "Stake"
        THEN ProcessDelegateStake(accs, clk, history, id, state, vote_key,
                                  credits, signers)
        ELSE [result |-> Ok(Unit), accounts |-> accs]

process_delegate(accs, clk, history, id, vote_key, credits, signers, accounts_len) ==
    LET state == get_stake_state(accs, id)
    IN  IF accounts_len < 5
        THEN [result |-> Err("NotEnoughAccountKeys"), accounts |-> accs]
        ELSE IF state.tag = "Initialized"
        THEN ProcessDelegateInitialized(accs, clk, id, state.meta, vote_key,
                                        credits, signers)
        ELSE IF state.tag = "Stake"
        THEN ProcessDelegateStake(accs, clk, history, id, state, vote_key,
                                  credits, signers)
        ELSE [result |-> Err("InvalidAccountData"), accounts |-> accs]

(***************************************************************************)
(* instruction/move_lamports.rs: process_move_lamports.  authority is the  *)
(* key of the stake authority account, is_signer whether it signed, and    *)
(* writable whether the source and the destination are writable.           *)
(***************************************************************************)
\* collect_signers_checked(Some(authority), None): the signers array, or the
\* error of add_signer.
collect_signers_checked(authority, is_signer) ==
    IF ~is_signer THEN Err("MissingRequiredSignature")
    ELSE Ok({authority} \cup {DEFAULT_PUBKEY})

\* move_stake_or_lamports_shared_checks: the source's merge class, or the
\* error.
move_stake_or_lamports_shared_checks(accs, clk, history, source, lamports, destination, authority, is_signer, writable) ==
    LET signers == collect_signers_checked(authority, is_signer)
        source_merge_kind ==
            get_if_mergeable(get_stake_state(accs, source), accs[source].lamports,
                             clk, history)
        destination_merge_kind ==
            get_if_mergeable(get_stake_state(accs, destination),
                             accs[destination].lamports, clk, history)
        metas == metas_can_merge(MergeKindMeta(source_merge_kind.val),
                                 MergeKindMeta(destination_merge_kind.val), clk)
    IN  IF ~signers.ok THEN signers
        ELSE IF source = destination THEN Err("InvalidInstructionData")
        ELSE IF ~writable THEN Err("InvalidInstructionData")
        ELSE IF lamports = 0 THEN Err("InvalidArgument")
        ELSE IF ~source_merge_kind.ok THEN source_merge_kind
        ELSE IF ~AuthorizedCheck(MergeKindMeta(source_merge_kind.val).authorized,
                                 signers.val, "Staker").ok
        THEN Err("MissingRequiredSignature")
        ELSE IF ~destination_merge_kind.ok THEN destination_merge_kind
        ELSE IF ~metas.ok THEN metas
        ELSE Ok(source_merge_kind.val)

\* The lamports of the source that are neither staked nor its reserve.
SourceFreeLamports_IgnoresStake(accs, source, source_merge_kind) ==
    IF source_merge_kind.kind \in {"FullyActive", "Inactive"}
    THEN Ok(saturating_sub(accs[source].lamports,
                           source_merge_kind.meta.rent_exempt_reserve))
    ELSE Err("InvalidAccountData")

SourceFreeLamports(accs, source, source_merge_kind) ==
    IF source_merge_kind.kind = "FullyActive"
    THEN Ok(saturating_sub(
                saturating_sub(accs[source].lamports,
                               source_merge_kind.stake.delegation.stake),
                source_merge_kind.meta.rent_exempt_reserve))
    ELSE IF source_merge_kind.kind = "Inactive"
    THEN Ok(saturating_sub(source_merge_kind.lamports,
                           source_merge_kind.meta.rent_exempt_reserve))
    ELSE Err("InvalidAccountData")

process_move_lamports(accs, clk, history, source, destination, authority, is_signer, writable, lamports, accounts_len) ==
    LET fail(e) == [result |-> e, accounts |-> accs]
        checks == move_stake_or_lamports_shared_checks(
                      accs, clk, history, source, lamports, destination,
                      authority, is_signer, writable)
        source_free_lamports == SourceFreeLamports(accs, source, checks.val)
    IN  IF accounts_len < 3 THEN fail(Err("NotEnoughAccountKeys"))
        ELSE IF ~checks.ok THEN fail(checks)
        ELSE IF ~source_free_lamports.ok THEN fail(source_free_lamports)
        ELSE IF lamports > source_free_lamports.val
        THEN fail(Err("InvalidArgument"))
        ELSE relocate_lamports(accs, source, destination, lamports)

(***************************************************************************)
(* state/mod.rs: try_get_stake_state_mut, through which do_authorize and   *)
(* do_set_lookup obtain the record they modify.  owner is the program that *)
(* owns the account handed in; ID is the stake program.                    *)
(***************************************************************************)
ID == "Stake11111111111111111111111111111111111111"
SYSTEM_PROGRAM == "11111111111111111111111111111111"
AccountOwners == {ID, SYSTEM_PROGRAM}

is_owned_by(owner, program) == owner = program

try_get_stake_state_mut_OwnerRequired(accs, id, owner) ==
    IF ~is_owned_by(owner, ID) THEN Err("InvalidAccountOwner")
    ELSE Ok(accs[id].state)

try_get_stake_state_mut(accs, id, owner) ==
    IF is_owned_by(owner, ID) THEN Err("InvalidAccountOwner")
    ELSE Ok(accs[id].state)

\* error.rs: to_program_error keeps the errors ProgramError knows and turns
\* every other one into InvalidAccountData.
ProgramErrors ==
    {"MissingRequiredSignature", "InvalidArgument", "InvalidInstructionData",
     "InvalidAccountData", "InvalidAccountOwner", "ArithmeticOverflow",
     "NotEnoughAccountKeys", "InsufficientFunds",
     "CustodianMissing", "CustodianSignatureMissing", "LockupInForce"}

to_program_error(e) == IF e \in ProgramErrors THEN e ELSE "InvalidAccountData"

(***************************************************************************)
(* state/meta.rs and instruction/set_lockup.rs: Meta::set_lockup and       *)
(* process_set_lockup.  lockup is a LockupArgs: each of unix_timestamp,    *)
(* epoch and custodian is None or Some(value).  The result of              *)
(* Meta::set_lockup carries the Meta as the call leaves it.                *)
(***************************************************************************)
LockupArgs(unix_timestamp, epoch, custodian) ==
    [unix_timestamp |-> unix_timestamp, epoch |-> epoch, custodian |-> custodian]

SetLockupSignerArgs(has_custodian_signer, has_withdrawer_signer) ==
    [has_custodian_signer |-> has_custodian_signer,
     has_withdrawer_signer |-> has_withdrawer_signer]

MetaSetLockupFields_AbsentAsDefault(meta, lockup) ==
    [meta EXCEPT
        !.lockup.unix_timestamp =
            IF lockup.unix_timestamp.some THEN lockup.unix_timestamp.val ELSE 0,
        !.lockup.epoch = IF lockup.epoch.some THEN lockup.epoch.val ELSE 0,
        !.lockup.custodian =
            IF lockup.custodian.some THEN lockup.custodian.val ELSE DEFAULT_PUBKEY]

MetaSetLockupFields(meta, lockup) ==
    [meta EXCEPT
        !.lockup.unix_timestamp =
            IF lockup.unix_timestamp.some THEN lockup.unix_timestamp.val ELSE @,
        !.lockup.epoch = IF lockup.epoch.some THEN lockup.epoch.val ELSE @,
        !.lockup.custodian =
            IF lockup.custodian.some THEN lockup.custodian.val ELSE @]

MetaSetLockup_EitherSigner(meta, lockup, signer_args, clk) ==
    IF ~signer_args.has_custodian_signer /\ ~signer_args.has_withdrawer_signer
    THEN [result |-> Err("MissingRequiredSignature"), meta |-> meta]
    ELSE [result |-> Ok(Unit), meta |-> MetaSetLockupFields(meta, lockup)]

MetaSetLockup(meta, lockup, signer_args, clk) ==
    IF LockupIsInForce(meta.lockup, clk, None)
       /\ ~signer_args.has_custodian_signer
    THEN [result |-> Err("MissingRequiredSignature"), meta |-> meta]
    ELSE IF ~LockupIsInForce(meta.lockup, clk, None)
            /\ ~signer_args.has_withdrawer_signer
    THEN [result |-> Err("MissingRequiredSignature"), meta |-> meta]
    ELSE [result |-> Ok(Unit), meta |-> MetaSetLockupFields(meta, lockup)]

\* The record with its Meta replaced.
WithMeta(state, meta) == [state EXCEPT !.meta = meta]

do_set_lookup(accs, id, owner, lockup, has_custodian_signer, has_withdrawer_signer, clk) ==
    LET stake_account == try_get_stake_state_mut(accs, id, owner)
        set == MetaSetLockup(stake_account.val.meta, lockup,
                             SetLockupSignerArgs(has_custodian_signer,
                                                 has_withdrawer_signer), clk)
    IN  IF ~stake_account.ok THEN [result |-> stake_account, accounts |-> accs]
        ELSE IF stake_account.val.tag \notin {"Initialized", "Stake"}
        THEN [result |-> Err("InvalidAccountData"), accounts |-> accs]
        ELSE IF ~set.result.ok
        THEN [result |-> Err(to_program_error(set.result.err)), accounts |-> accs]
        ELSE [result |-> Ok(Unit),
              accounts |-> set_stake_state(accs, id,
                                           WithMeta(stake_account.val, set.meta))]

\* lockup_args is the result of LockupArgs::from_data, signers are the keys
\* of the accounts of the list that signed.
process_set_lockup(accs, clk, id, owner, lockup_args, signers, accounts_len) ==
    LET fail(e) == [result |-> e, accounts |-> accs]
        stake_account == get_stake_state(accs, id)
    IN  IF ~lockup_args.ok THEN fail(lockup_args)
        ELSE IF accounts_len < 1 THEN fail(Err("NotEnoughAccountKeys"))
        ELSE IF stake_account.tag \notin {"Initialized", "Stake"}
        THEN fail(Err("InvalidAccountData"))
        ELSE do_set_lookup(accs, id, owner, lockup_args.val,
                           stake_account.meta.lockup.custodian \in signers,
                           stake_account.meta.authorized.withdrawer \in signers,
                           clk)

(***************************************************************************)
(* state/utils.rs and instruction/authorized_checked.rs: do_authorize and  *)
(* process_authorize_checked.  Authorized::authorize (specification        *)
(* section 4.5): the role's current holder must be among the signers, and  *)
(* while the lockup is in force a change of the withdrawer needs the       *)
(* custodian's signature as well.  Its result carries the Authorized as    *)
(* the call leaves it.                                                     *)
(***************************************************************************)
AuthorizedAuthorize_NoLockupCheck(authorized, signers, new_authorized, stake_authorize, lockup, clk, custodian) ==
    LET role == AuthorizedCheck(authorized, signers, stake_authorize)
    IN  IF ~role.ok THEN [result |-> role, authorized |-> authorized]
        ELSE IF stake_authorize = "Staker"
        THEN [result |-> Ok(Unit),
              authorized |-> [authorized EXCEPT !.staker = new_authorized]]
        ELSE [result |-> Ok(Unit),
              authorized |-> [authorized EXCEPT !.withdrawer = new_authorized]]

AuthorizedAuthorize(authorized, signers, new_authorized, stake_authorize, lockup, clk, custodian) ==
    LET fail(e) == [result |-> Err(e), authorized |-> authorized]
        role == AuthorizedCheck(authorized, signers, stake_authorize)
    IN  IF stake_authorize = "Staker"
        THEN IF ~role.ok THEN fail(role.err)
             ELSE [result |-> Ok(Unit),
                   authorized |-> [authorized EXCEPT !.staker = new_authorized]]
        ELSE IF LockupIsInForce(lockup, clk, None) /\ ~custodian.some
        THEN fail("CustodianMissing")
        ELSE IF LockupIsInForce(lockup, clk, None)
                /\ custodian.val \notin signers
        THEN fail("CustodianSignatureMissing")
        ELSE IF LockupIsInForce(lockup, clk, None)
                /\ LockupIsInForce(lockup, clk, custodian)
        THEN fail("LockupInForce")
        ELSE IF ~role.ok THEN fail(role.err)
        ELSE [result |-> Ok(Unit),
              authorized |-> [authorized EXCEPT !.withdrawer = new_authorized]]

do_authorize(accs, id, owner, signers, new_authority, authority_type, custodian, clk) ==
    LET stake_account == try_get_stake_state_mut(accs, id, owner)
        meta == stake_account.val.meta
        authorized == AuthorizedAuthorize(meta.authorized, signers, new_authority,
                                          authority_type, meta.lockup, clk,
                                          custodian)
    IN  IF ~stake_account.ok THEN [result |-> stake_account, accounts |-> accs]
        ELSE IF stake_account.val.tag \notin {"Initialized", "Stake"}
        THEN [result |-> Err("InvalidAccountData"), accounts |-> accs]
        ELSE IF ~authorized.result.ok
        THEN [result |-> Err(to_program_error(authorized.result.err)),
              accounts |-> accs]
        ELSE [result |-> Ok(Unit),
              accounts |->
                  set_stake_state(accs, id,
                      WithMeta(stake_account.val,
                               [meta EXCEPT !.authorized = authorized.authorized]))]

\* signers are the keys of the accounts of the list that signed,
\* accounts_len the length of the list and lockup_authority the key of its
\* fifth account, if it has one.
process_authorize_checked(accs, clk, id, owner, signers, new_authority, authority_type, accounts_len, lockup_authority) ==
    LET option_lockup_authority ==
            IF accounts_len > 4 THEN Some(lockup_authority) ELSE None
        custodian == IF option_lockup_authority.some
                        /\ option_lockup_authority.val \in signers
                     THEN option_lockup_authority
                     ELSE None
    IN  IF accounts_len < 4
        THEN [result |-> Err("NotEnoughAccountKeys"), accounts |-> accs]
        ELSE IF new_authority \notin signers
        THEN [result |-> Err("MissingRequiredSignature"), accounts |-> accs]
        ELSE do_authorize(accs, id, owner, SignersArr(signers), new_authority,
                          authority_type, custodian, clk)

(***************************************************************************)
(* The system: two stake accounts, the clock and the stake history.  call  *)
(* records the last step: the instruction, its inputs, the accounts before *)
(* it and its result.                                                      *)
(***************************************************************************)
NoLockup == [unix_timestamp |-> 0, epoch |-> 0, custodian |-> DEFAULT_PUBKEY]
EpochLockup == [unix_timestamp |-> 0, epoch |-> 2, custodian |-> "C"]
TimeLockup == [unix_timestamp |-> 1, epoch |-> 0, custodian |-> "C"]

MakeMeta(rent, staker, withdrawer, lockup) ==
    [rent_exempt_reserve |-> rent,
     authorized |-> [staker |-> staker, withdrawer |-> withdrawer],
     lockup |-> lockup]

MakeStake(voter, stake, activation, deactivation, credits) ==
    [delegation |-> [voter_pubkey |-> voter, stake |-> stake,
                     activation_epoch |-> activation,
                     deactivation_epoch |-> deactivation],
     credits_observed |-> credits]

\* The metas of the initial accounts: a base meta and one that differs from
\* it in the reserve, in the staker, and in the lockup (by epoch, by time).
BaseMeta == MakeMeta(1, "A", "W", NoLockup)
ReserveMeta == MakeMeta(2, "A", "W", NoLockup)
StakerMeta == MakeMeta(1, "K", "W", NoLockup)
EpochLockupMeta == MakeMeta(1, "A", "W", EpochLockup)
TimeLockupMeta == MakeMeta(1, "A", "W", TimeLockup)

\* A delegated account that holds its reserve, its stake and one free lamport.
StakeAccount(meta, stake, flags) ==
    Account(StakeState(meta, stake, flags),
            meta.rent_exempt_reserve + stake.delegation.stake + 1)

InitAccounts ==
    { Account(Uninitialized, 5), Account(RewardsPool, 1),
      Account(Initialized(BaseMeta), 4),
      Account(Initialized(ReserveMeta), 2),
      Account(Initialized(TimeLockupMeta), 4),
      StakeAccount(BaseMeta, MakeStake("V1", 4, 0, EPOCH_MAX, 1), StakeFlagsEmpty),
      StakeAccount(ReserveMeta, MakeStake("V1", 2, 0, EPOCH_MAX, 3),
                   {MUST_FULLY_ACTIVATE}),
      StakeAccount(BaseMeta, MakeStake("V1", 2, 1, EPOCH_MAX, 1), StakeFlagsEmpty),
      StakeAccount(ReserveMeta, MakeStake("V1", 4, 1, EPOCH_MAX, 3),
                   {MUST_FULLY_ACTIVATE}),
      StakeAccount(BaseMeta, MakeStake("V2", 4, 0, EPOCH_MAX, 1), StakeFlagsEmpty),
      StakeAccount(BaseMeta, MakeStake("V1", 4, 0, 2, 1), {MUST_FULLY_ACTIVATE}),
      StakeAccount(StakerMeta, MakeStake("V1", 4, 0, EPOCH_MAX, 1), StakeFlagsEmpty),
      StakeAccount(EpochLockupMeta, MakeStake("V1", 4, 1, EPOCH_MAX, 3),
                   StakeFlagsEmpty) }

\* Two timelines of the pool: no snapshots at all, and a pool whose
\* activating and deactivating stake is large against its effective stake,
\* so that warmup and cooldown take more than one epoch.
InitHistories ==
    { [e \in 0..MaxEpoch |-> NoEntry],
      [e \in 0..MaxEpoch |-> HistoryEntry(40, 4, 4)] }

TypeOK ==
    /\ DOMAIN accounts = AccountIds
    /\ \A id \in AccountIds : accounts[id].lamports \in 0..U64_MAX
    /\ clock.epoch \in 0..MaxEpoch
    /\ clock.unix_timestamp \in 0..MaxTime

Init ==
    /\ accounts \in [AccountIds -> InitAccounts]
    /\ clock = [epoch |-> 0, unix_timestamp |-> 0]
    /\ stake_history \in InitHistories
    /\ call = [op |-> "init"]

\* The runtime's clock: the epoch and the time only move forward.
AdvanceEpoch ==
    /\ clock.epoch < MaxEpoch
    /\ clock' = [clock EXCEPT !.epoch = @ + 1]
    /\ call' = [op |-> "clock"]
    /\ UNCHANGED <<accounts, stake_history>>

AdvanceTime ==
    /\ clock.unix_timestamp < MaxTime
    /\ clock' = [clock EXCEPT !.unix_timestamp = @ + 1]
    /\ call' = [op |-> "clock"]
    /\ UNCHANGED <<accounts, stake_history>>

ProcessMerge ==
    \E dest \in AccountIds, src \in AccountIds, signers \in SUBSET AccountIds,
       accounts_len \in {4, 5} :
        LET out == process_merge(accounts, clock, stake_history, dest, src,
                                 signers, accounts_len)
        IN  /\ signers \subseteq {dest, src}
            /\ accounts_len # 4 => signers = {}
            /\ accounts' = out.accounts
            /\ call' = [op |-> "merge", dest |-> dest, src |-> src,
                        signers |-> signers, accounts_len |-> accounts_len,
                        pre |-> accounts, result |-> out.result]
            /\ UNCHANGED <<clock, stake_history>>

Next == AdvanceEpoch \/ AdvanceTime \/ ProcessMerge

Spec == Init /\ [][Next]_vars

(***************************************************************************)
(* The instructions together: process_delegate, process_merge and          *)
(* process_move_lamports on two stake accounts, over the epochs of the     *)
(* clock.  The initial accounts are an uninitialized one, initialized ones *)
(* (one whose staker is the all-zero key, one whose balance is within two  *)
(* lamports of u64::MAX) and delegated ones that hold at least their       *)
(* reserve and their stake.  The pool's activating and deactivating stake  *)
(* is large against its effective stake, so warmup and cooldown take more  *)
(* than one epoch.                                                         *)
(***************************************************************************)
DefaultStakerMeta == MakeMeta(1, DEFAULT_PUBKEY, "W", NoLockup)
LargeReserveMeta == MakeMeta(U64_MAX - 3, "A", "W", NoLockup)

\* The accounts "A" and "B" start as.
InstructionAccountsA ==
    { Account(Initialized(BaseMeta), 4),
      Account(Initialized(DefaultStakerMeta), 4),
      StakeAccount(BaseMeta, MakeStake("V1", 4, 0, EPOCH_MAX, 1), StakeFlagsEmpty) }
InstructionAccountsB ==
    { Account(Uninitialized, 5), Account(RewardsPool, 1),
      Account(Initialized(DefaultStakerMeta), 4),
      Account(Initialized(LargeReserveMeta), U64_MAX - 1),
      StakeAccount(BaseMeta, MakeStake("V1", 4, 0, 1, 1), StakeFlagsEmpty) }

InitInstructions ==
    /\ \E a \in InstructionAccountsA, b \in InstructionAccountsB :
           accounts = [id \in AccountIds |-> IF id = "A" THEN a ELSE b]
    /\ clock = [epoch |-> 0, unix_timestamp |-> 0]
    /\ stake_history = [e \in 0..MaxEpoch |-> HistoryEntry(40, 4, 4)]
    /\ call = [op |-> "init"]

\* The credits of the vote state of each vote account.
VoteCreditsOf(vote_key) == IF vote_key = "V1" THEN 1 ELSE ByteBase + 1

ProcessDelegate ==
    \E id \in AccountIds, vote_key \in {"V1"}, signers \in {{}, {"A"}},
       accounts_len \in {4, 5} :
        LET out == process_delegate(accounts, clock, stake_history, id, vote_key,
                                    VoteCreditsOf(vote_key), signers, accounts_len)
        IN  /\ accounts_len < 5 => (signers = {} /\ vote_key = "V1")
            /\ accounts' = out.accounts
            /\ call' = [op |-> "delegate", stake_account |-> id,
                        vote_key |-> vote_key, signers |-> signers,
                        accounts_len |-> accounts_len,
                        pre |-> accounts, result |-> out.result]
            /\ UNCHANGED <<clock, stake_history>>

\* The lamports a caller asks to move, and the shapes of the call: a well
\* formed call by either authority, and one call each with an authority that
\* did not sign, with read-only accounts, with nothing to move and with one
\* account too few.
MoveCalls ==
    { [authority |-> a, is_signer |-> TRUE, writable |-> TRUE, lamports |-> 3,
       accounts_len |-> 3] : a \in AccountIds }
    \cup { [authority |-> "A", is_signer |-> FALSE, writable |-> TRUE,
            lamports |-> 3, accounts_len |-> 3],
           [authority |-> "A", is_signer |-> TRUE, writable |-> FALSE,
            lamports |-> 3, accounts_len |-> 3],
           [authority |-> "A", is_signer |-> TRUE, writable |-> TRUE,
            lamports |-> 0, accounts_len |-> 3],
           [authority |-> "A", is_signer |-> TRUE, writable |-> TRUE,
            lamports |-> 3, accounts_len |-> 2] }

ProcessMoveLamports ==
    \E source \in AccountIds, destination \in AccountIds, c \in MoveCalls :
        LET out == process_move_lamports(
                       accounts, clock, stake_history, source, destination,
                       c.authority, c.is_signer, c.writable, c.lamports,
                       c.accounts_len)
        IN  /\ (c.authority # "A" \/ ~c.is_signer \/ ~c.writable \/ c.lamports = 0
                \/ c.accounts_len < 3) => (source = "A" /\ destination = "B")
            /\ accounts' = out.accounts
            /\ call' = [op |-> "move_lamports", source |-> source,
                        destination |-> destination, authority |-> c.authority,
                        is_signer |-> c.is_signer, writable |-> c.writable,
                        lamports |-> c.lamports, accounts_len |-> c.accounts_len,
                        pre |-> accounts, result |-> out.result]
            /\ UNCHANGED <<clock, stake_history>>

\* The accounts of this specification are written by process_delegate and
\* process_merge, so they are accounts of the stake program: that is the
\* owner process_set_lockup and process_authorize_checked find.
ProcessSetLockup ==
    \E id \in AccountIds :
        LET lockup_args == Ok(LockupArgs(None, Some(2), Some("N")))
            out == process_set_lockup(accounts, clock, id, ID, lockup_args,
                                      {"W"}, 1)
        IN  /\ accounts' = out.accounts
            /\ call' = [op |-> "set_lockup", stake_account |-> id, owner |-> ID,
                        lockup_args |-> lockup_args, signers |-> {"W"},
                        accounts_len |-> 1, pre |-> accounts,
                        result |-> out.result]
            /\ UNCHANGED <<clock, stake_history>>

ProcessAuthorizeChecked ==
    \E id \in AccountIds, authority_type \in {"Staker", "Withdrawer"} :
        LET out == process_authorize_checked(accounts, clock, id, ID,
                                             {"N", "A", "W"}, "N",
                                             authority_type, 4, "C")
        IN  /\ accounts' = out.accounts
            /\ call' = [op |-> "authorize", stake_account |-> id, owner |-> ID,
                        signers |-> {"N", "A", "W"}, new_authority |-> "N",
                        authority_type |-> authority_type, accounts_len |-> 4,
                        lockup_authority |-> "C", pre |-> accounts,
                        result |-> out.result]
            /\ UNCHANGED <<clock, stake_history>>

NextInstructions ==
    \/ AdvanceEpoch \/ ProcessDelegate \/ ProcessMerge \/ ProcessMoveLamports
    \/ ProcessSetLockup \/ ProcessAuthorizeChecked

SpecInstructions == InitInstructions /\ [][NextInstructions]_vars

(***************************************************************************)
(* MergeKind::merge as a pure function: the two merge classes and the      *)
(* clock are drawn from bounded sets, and MergeCall applies merge.         *)
(***************************************************************************)
NoAccounts == [id \in AccountIds |-> Account(Uninitialized, 0)]
NoHistory == [e \in 0..MaxEpoch |-> NoEntry]
Clocks == [epoch : 0..MaxEpoch, unix_timestamp : 0..MaxTime]

SelfMetas == {BaseMeta, EpochLockupMeta}
SourceMetas ==
    { BaseMeta, ReserveMeta, StakerMeta, EpochLockupMeta, TimeLockupMeta,
      MakeMeta(1, "A", "X", NoLockup), MakeMeta(2, "A", "W", EpochLockup) }

SelfStakes ==
    { MakeStake("V1", s, 0, d, c) :
        s \in {2, U64_MAX - 2}, d \in {2, EPOCH_MAX}, c \in {1, 3} }
SourceStakes ==
    { MakeStake("V1", 2, 0, EPOCH_MAX, 1), MakeStake("V2", 2, 0, EPOCH_MAX, 1),
      MakeStake("V1", 3, 0, EPOCH_MAX, 1), MakeStake("V1", 2, 0, 2, 1),
      MakeStake("V1", 2, 0, EPOCH_MAX, 3), MakeStake("V1", 1, 1, EPOCH_MAX, 4),
      MakeStake("V1", U64_MAX, 0, EPOCH_MAX, 3) }

AllFlags == {StakeFlagsEmpty, {MUST_FULLY_ACTIVATE}}

MergeKindsOf(metas, stakes, lamports) ==
    {Inactive(m, l, f) : m \in metas, l \in lamports, f \in AllFlags}
    \cup {ActivationEpoch(m, s, f) : m \in metas, s \in stakes, f \in AllFlags}
    \cup {FullyActive(m, s) : m \in metas, s \in stakes}

InitMerge ==
    /\ accounts = NoAccounts
    /\ stake_history = NoHistory
    /\ clock \in Clocks
    /\ call \in [op : {"merge_call"},
                 self : MergeKindsOf(SelfMetas, SelfStakes, {4}),
                 source : MergeKindsOf(SourceMetas, SourceStakes, {3, U64_MAX})]

MergeCall ==
    /\ call.op = "merge_call"
    /\ call' = [op |-> "merge_return", self |-> call.self, source |-> call.source,
                result |-> merge(call.self, call.source, clock)]
    /\ UNCHANGED <<accounts, clock, stake_history>>

NextMerge == MergeCall

SpecMerge == InitMerge /\ [][NextMerge]_vars

(***************************************************************************)
(* The authority instructions: process_set_lockup and                      *)
(* process_authorize_checked on account A, whose owner is whatever program *)
(* the transaction's account belongs to, with account B a record without a *)
(* Meta.  Keys: A the staker, W the withdrawer, C the custodian, N a new   *)
(* authority or custodian.                                                 *)
(***************************************************************************)
DefaultWithdrawerMeta == MakeMeta(1, "A", DEFAULT_PUBKEY, EpochLockup)

AuthorityAccountsA ==
    { Account(Initialized(BaseMeta), 4),
      Account(Initialized(EpochLockupMeta), 4),
      Account(Initialized(DefaultWithdrawerMeta), 4),
      StakeAccount(TimeLockupMeta, MakeStake("V1", 4, 0, EPOCH_MAX, 1),
                   StakeFlagsEmpty) }

AuthorityAccountsB == { Account(Uninitialized, 5), Account(RewardsPool, 1) }

InitAuthority ==
    /\ \E a \in AuthorityAccountsA, b \in AuthorityAccountsB :
          accounts = [id \in AccountIds |-> IF id = "A" THEN a ELSE b]
    /\ clock = [epoch |-> 0, unix_timestamp |-> 0]
    /\ stake_history = NoHistory
    /\ call = [op |-> "init"]

\* The parsed instruction data of set_lockup: nothing, a new epoch and
\* custodian, or data that from_data rejects.
SetLockupData ==
    { Ok(LockupArgs(None, None, None)),
      Ok(LockupArgs(None, Some(2), Some("N"))),
      Err("InvalidInstructionData") }

\* The calls of set_lockup: on an account A of another program with every
\* signer set, and a few on an account A of the stake program, on B, with
\* rejected data and with an empty account list.
SetLockupCalls ==
    [stake_account : {"A"}, owner : {SYSTEM_PROGRAM},
     lockup_args : SetLockupData \ {Err("InvalidInstructionData")},
     signers : {{}, {"W"}, {"C"}, {"N"}, {"W", "C"}}, accounts_len : {1}]
    \cup [stake_account : {"A"}, owner : {ID},
          lockup_args : {Ok(LockupArgs(None, Some(2), Some("N")))},
          signers : {{}, {"W", "C"}}, accounts_len : {1}]
    \cup [stake_account : {"A"}, owner : {SYSTEM_PROGRAM},
          lockup_args : {Err("InvalidInstructionData")},
          signers : {{"W", "C"}}, accounts_len : {1}]
    \cup [stake_account : {"A"}, owner : {SYSTEM_PROGRAM},
          lockup_args : {Ok(LockupArgs(None, None, None))},
          signers : {{}}, accounts_len : {0}]
    \cup [stake_account : {"B"}, owner : AccountOwners,
          lockup_args : {Ok(LockupArgs(None, Some(2), Some("N")))},
          signers : {{"W", "C"}}, accounts_len : {1}]

SetLockup ==
    \E c \in SetLockupCalls :
        LET out == process_set_lockup(accounts, clock, c.stake_account, c.owner,
                                      c.lockup_args, c.signers, c.accounts_len)
        IN  /\ accounts' = out.accounts
            /\ call' = [op |-> "set_lockup", stake_account |-> c.stake_account,
                        owner |-> c.owner, lockup_args |-> c.lockup_args,
                        signers |-> c.signers, accounts_len |-> c.accounts_len,
                        pre |-> accounts, result |-> out.result]
            /\ UNCHANGED <<clock, stake_history>>

\* The calls of authorize_checked: the new authority N signs (once it does
\* not), alone or with the staker, the withdrawer and the custodian C, who
\* is the fifth account of the list when it has five.
AuthorizeCalls ==
    [stake_account : {"A"}, owner : {SYSTEM_PROGRAM},
     signers : {{"N"}, {"N", "A"}, {"N", "W"}, {"N", "W", "C"}},
     new_authority : {"N"}, authority_type : {"Staker", "Withdrawer"},
     accounts_len : {4, 5}]
    \cup [stake_account : {"A"}, owner : {ID},
          signers : {{"N"}, {"N", "A", "W", "C"}}, new_authority : {"N"},
          authority_type : {"Staker", "Withdrawer"}, accounts_len : {5}]
    \cup [stake_account : {"A"}, owner : {SYSTEM_PROGRAM},
          signers : {{"A", "W", "C"}}, new_authority : {"N"},
          authority_type : {"Staker", "Withdrawer"}, accounts_len : {5}]
    \cup [stake_account : {"A"}, owner : {SYSTEM_PROGRAM},
          signers : {{"N", "W", "C"}}, new_authority : {"N"},
          authority_type : {"Withdrawer"}, accounts_len : {3}]
    \cup [stake_account : {"B"}, owner : AccountOwners,
          signers : {{"N", "W", "C"}}, new_authority : {"N"},
          authority_type : {"Withdrawer"}, accounts_len : {5}]

AuthorizeChecked ==
    \E c \in AuthorizeCalls :
        LET out == process_authorize_checked(accounts, clock, c.stake_account,
                                             c.owner, c.signers, c.new_authority,
                                             c.authority_type, c.accounts_len, "C")
        IN  /\ accounts' = out.accounts
            /\ call' = [op |-> "authorize", stake_account |-> c.stake_account,
                        owner |-> c.owner, signers |-> c.signers,
                        new_authority |-> c.new_authority,
                        authority_type |-> c.authority_type,
                        accounts_len |-> c.accounts_len,
                        lockup_authority |-> "C",
                        pre |-> accounts, result |-> out.result]
            /\ UNCHANGED <<clock, stake_history>>

NextAuthority == AdvanceEpoch \/ AdvanceTime \/ SetLockup \/ AuthorizeChecked

SpecAuthority == InitAuthority /\ [][NextAuthority]_vars

(***************************************************************************)
(* instruction/set_lockup.rs: LockupArgs::from_data on the instruction     *)
(* data, a sequence of bytes.  data[i] of the code is At(data, i) and      *)
(* data[lo..=hi] is Slice(data, lo, hi).  Epoch and UnixTimestamp are      *)
(* [u8; 8], Pubkey is [u8; 32], so Option of each is one presence byte     *)
(* followed by the payload and LockupArgs is 9 + 9 + 33 bytes.             *)
(***************************************************************************)
At(data, i) == data[i + 1]

Slice(data, lo, hi) == SubSeq(data, lo + 1, hi + 1)

from_data_EpochAtTimestampOffset(data) ==
    IF Len(data) = 3
    THEN IF At(data, 0) = 1 \/ At(data, 1) = 1 \/ At(data, 2) = 1
         THEN Err("InvalidInstructionData")
         ELSE Ok(LockupArgs(None, None, None))
    ELSE IF Len(data) = 11
    THEN IF ~(\/ At(data, 0) = 1 /\ At(data, 9) = 0 /\ At(data, 10) = 0
              \/ At(data, 0) = 0 /\ At(data, 1) = 1 /\ At(data, 10) = 0)
         THEN Err("InvalidInstructionData")
         ELSE IF At(data, 0) = 1
         THEN Ok(LockupArgs(Some(Slice(data, 1, 8)), None, None))
         ELSE Ok(LockupArgs(None, Some(Slice(data, 1, 8)), None))
    ELSE IF Len(data) = 19
    THEN IF ~(At(data, 0) = 1 /\ At(data, 9) = 1 /\ At(data, 18) = 0)
         THEN Err("InvalidInstructionData")
         ELSE Ok(LockupArgs(Some(Slice(data, 1, 8)), Some(Slice(data, 10, 17)), None))
    ELSE IF Len(data) = 35
    THEN IF ~(At(data, 0) = 0 /\ At(data, 1) = 0 /\ At(data, 2) = 1)
         THEN Err("InvalidInstructionData")
         ELSE Ok(LockupArgs(None, None, Some(Slice(data, 3, 34))))
    ELSE IF Len(data) = 43
    THEN IF ~(\/ At(data, 0) = 0 /\ At(data, 1) = 1 /\ At(data, 10) = 1
              \/ At(data, 0) = 1 /\ At(data, 9) = 0 /\ At(data, 10) = 1)
         THEN Err("InvalidInstructionData")
         ELSE IF At(data, 0) = 1
         THEN Ok(LockupArgs(Some(Slice(data, 1, 8)), None,
                            Some(Slice(data, 11, 42))))
         ELSE Ok(LockupArgs(None, Some(Slice(data, 2, 9)),
                            Some(Slice(data, 11, 42))))
    ELSE IF Len(data) = 51
    THEN IF ~(At(data, 0) = 1 /\ At(data, 9) = 1 /\ At(data, 18) = 1)
         THEN Err("InvalidInstructionData")
         \* The bytes read as a LockupArgs: the three presence bytes are 1.
         ELSE Ok(LockupArgs(Some(Slice(data, 1, 8)), Some(Slice(data, 10, 17)),
                            Some(Slice(data, 19, 50))))
    ELSE Err("InvalidInstructionData")

from_data(data) ==
    IF Len(data) = 3
    THEN IF At(data, 0) = 1 \/ At(data, 1) = 1 \/ At(data, 2) = 1
         THEN Err("InvalidInstructionData")
         ELSE Ok(LockupArgs(None, None, None))
    ELSE IF Len(data) = 11
    THEN IF ~(\/ At(data, 0) = 1 /\ At(data, 9) = 0 /\ At(data, 10) = 0
              \/ At(data, 0) = 0 /\ At(data, 1) = 1 /\ At(data, 10) = 0)
         THEN Err("InvalidInstructionData")
         ELSE IF At(data, 0) = 1
         THEN Ok(LockupArgs(Some(Slice(data, 1, 8)), None, None))
         ELSE Ok(LockupArgs(None, Some(Slice(data, 2, 9)), None))
    ELSE IF Len(data) = 19
    THEN IF ~(At(data, 0) = 1 /\ At(data, 9) = 1 /\ At(data, 18) = 0)
         THEN Err("InvalidInstructionData")
         ELSE Ok(LockupArgs(Some(Slice(data, 1, 8)), Some(Slice(data, 10, 17)), None))
    ELSE IF Len(data) = 35
    THEN IF ~(At(data, 0) = 0 /\ At(data, 1) = 0 /\ At(data, 2) = 1)
         THEN Err("InvalidInstructionData")
         ELSE Ok(LockupArgs(None, None, Some(Slice(data, 3, 34))))
    ELSE IF Len(data) = 43
    THEN IF ~(\/ At(data, 0) = 0 /\ At(data, 1) = 1 /\ At(data, 10) = 1
              \/ At(data, 0) = 1 /\ At(data, 9) = 0 /\ At(data, 10) = 1)
         THEN Err("InvalidInstructionData")
         ELSE IF At(data, 0) = 1
         THEN Ok(LockupArgs(Some(Slice(data, 1, 8)), None,
                            Some(Slice(data, 11, 42))))
         ELSE Ok(LockupArgs(None, Some(Slice(data, 2, 9)),
                            Some(Slice(data, 11, 42))))
    ELSE IF Len(data) = 51
    THEN IF ~(At(data, 0) = 1 /\ At(data, 9) = 1 /\ At(data, 18) = 1)
         THEN Err("InvalidInstructionData")
         \* The bytes read as a LockupArgs: the three presence bytes are 1.
         ELSE Ok(LockupArgs(Some(Slice(data, 1, 8)), Some(Slice(data, 10, 17)),
                            Some(Slice(data, 19, 50))))
    ELSE Err("InvalidInstructionData")

\* The serialized form of an Option: the presence byte, then the payload.
SerializeOption(o) == IF o.some THEN <<1>> \o o.val ELSE <<0>>

\* serialize(&args) of the test of from_data.
SerializeLockupArgs(args) ==
    SerializeOption(args.unix_timestamp) \o SerializeOption(args.epoch)
        \o SerializeOption(args.custodian)

\* Payloads of n bytes: all zero, all one (the presence byte's value), one at
\* either end, and bytes that are no presence value.
PayloadBytes(n) ==
    { [i \in 1..n |-> 0], [i \in 1..n |-> 1],
      [i \in 1..n |-> IF i = 1 THEN 1 ELSE 0],
      [i \in 1..n |-> IF i = n THEN 1 ELSE 0],
      [i \in 1..n |-> IF i % 2 = 0 THEN 255 ELSE i] }

OptionOf(S) == {None} \cup {Some(x) : x \in S}

InitFromData ==
    /\ accounts = NoAccounts
    /\ stake_history = NoHistory
    /\ clock = [epoch |-> 0, unix_timestamp |-> 0]
    /\ call \in [op : {"from_data_call"},
                 args : { LockupArgs(t, e, c) :
                            t \in OptionOf(PayloadBytes(8)),
                            e \in OptionOf(PayloadBytes(8)),
                            c \in OptionOf(PayloadBytes(32)) }]

FromDataCall ==
    /\ call.op = "from_data_call"
    /\ call' = [op |-> "from_data_return", args |-> call.args,
                data |-> SerializeLockupArgs(call.args),
                result |-> from_data(SerializeLockupArgs(call.args))]
    /\ UNCHANGED <<accounts, clock, stake_history>>

NextFromData == FromDataCall

SpecFromData == InitFromData /\ [][NextFromData]_vars

(***************************************************************************)
(* do_set_lookup (with Meta::set_lockup) as a pure function of the stored  *)
(* record, the LockupArgs, the two signer flags and the clock: each field  *)
(* of the LockupArgs is present or absent on its own.                      *)
(***************************************************************************)
SetLockupArgs ==
    { LockupArgs(t, e, c) : t \in {None, Some(1)}, e \in {None, Some(3)},
                            c \in {None, Some("N")} }

SetLockupRecords ==
    AuthorityAccountsA
    \cup { StakeAccount(EpochLockupMeta, MakeStake("V1", 4, 0, EPOCH_MAX, 1), f) :
             f \in AllFlags }

InitSetLockup ==
    /\ \E a \in SetLockupRecords, b \in AuthorityAccountsB :
          accounts = [id \in AccountIds |-> IF id = "A" THEN a ELSE b]
    /\ clock \in Clocks
    /\ stake_history = NoHistory
    /\ call \in [op : {"do_set_lookup_call"}, stake_account : AccountIds,
                 owner : AccountOwners, lockup : SetLockupArgs,
                 has_custodian_signer : BOOLEAN, has_withdrawer_signer : BOOLEAN]

DoSetLookup ==
    /\ call.op = "do_set_lookup_call"
    /\ LET out == do_set_lookup(accounts, call.stake_account, call.owner,
                                call.lockup, call.has_custodian_signer,
                                call.has_withdrawer_signer, clock)
       IN  /\ accounts' = out.accounts
           /\ call' = [op |-> "do_set_lookup_return",
                       stake_account |-> call.stake_account,
                       owner |-> call.owner, lockup |-> call.lockup,
                       has_custodian_signer |-> call.has_custodian_signer,
                       has_withdrawer_signer |-> call.has_withdrawer_signer,
                       pre |-> accounts, result |-> out.result]
    /\ UNCHANGED <<clock, stake_history>>

NextSetLockup == DoSetLookup

SpecSetLockup == InitSetLockup /\ [][NextSetLockup]_vars

(***************************************************************************)
(* state/authorized_checked_with_seed.rs: AuthorizeCheckedWithSeedArgs,    *)
(* its serialize and deserialize on byte sequences.  The seed is a str,    *)
(* here of ASCII characters, whose bytes are its characters.               *)
(***************************************************************************)
AuthorizeCheckedWithSeedArgs(stake_authorize, authority_seed_len, authority_seed, authority_owner) ==
    [stake_authorize |-> stake_authorize, authority_seed_len |-> authority_seed_len,
     authority_seed |-> authority_seed, authority_owner |-> authority_owner]

\* self.stake_authorize as u8: the discriminants deserialize reads back.
StakeAuthorizeAsU8(stake_authorize) == IF stake_authorize = "Staker" THEN 0 ELSE 1

\* u32::to_le_bytes and u32::from_le_bytes.
U32ToLeBytes(n) ==
    <<n % 256, (n \div 256) % 256, (n \div 65536) % 256, (n \div 16777216) % 256>>

U32FromLeBytes(b) == b[1] + 256 * b[2] + 65536 * b[3] + 16777216 * b[4]

\* core::str::from_utf8 on bytes: every byte below 128 is one character.
FromUtf8(bytes) ==
    IF \A i \in 1..Len(bytes) : bytes[i] < 128 THEN Ok(bytes) ELSE Err("Utf8Error")

SeedArgsSerialize(args) ==
    <<StakeAuthorizeAsU8(args.stake_authorize)>>
        \o U32ToLeBytes(args.authority_seed_len)
        \o args.authority_seed
        \o args.authority_owner

SeedArgsDeserialize(input) ==
    IF Len(input) < 41 THEN Err("AccountDataTooSmall")
    ELSE IF At(input, 0) \notin {0, 1} THEN Err("InvalidInstructionData")
    ELSE LET stake_authorize == IF At(input, 0) = 0 THEN "Staker" ELSE "Withdrawer"
             authority_seed_len == U32FromLeBytes(Slice(input, 1, 4))
             seed_len == authority_seed_len
         IN  IF Len(input) < 5 + seed_len THEN Err("InvalidInstructionData")
             ELSE LET authority_seed == FromUtf8(Slice(input, 5, 5 + seed_len - 1))
                  IN  IF ~authority_seed.ok THEN Err("InvalidInstructionData")
                      ELSE IF Len(input) < 5 + seed_len + 32
                      THEN Err("InvalidInstructionData")
                      ELSE Ok(AuthorizeCheckedWithSeedArgs(
                                  stake_authorize, authority_seed_len,
                                  authority_seed.val,
                                  Slice(input, 5 + seed_len, 5 + seed_len + 31)))

\* Seeds from the empty one to the 12 characters of "example_seed", and
\* owners whose first bytes could be read as a length or a seed.
SeedStrings ==
    { [i \in 1..n |-> 97] : n \in {0, 1, 2, 3, 4, 5, 12} }
    \cup { [i \in 1..n |-> 48 + i] : n \in {0, 1, 2, 3, 4, 5, 12} }

SeedOwners ==
    { [i \in 1..32 |-> i], [i \in 1..32 |-> 0], [i \in 1..32 |-> 255] }

SeedArgsValues ==
    { AuthorizeCheckedWithSeedArgs(a, Len(seed) + extra, seed, owner) :
        a \in {"Staker", "Withdrawer"}, seed \in SeedStrings,
        owner \in SeedOwners, extra \in {0, 1} }

InitSeedArgs ==
    /\ accounts = NoAccounts
    /\ stake_history = NoHistory
    /\ clock = [epoch |-> 0, unix_timestamp |-> 0]
    /\ call \in [op : {"seed_args_call"}, args : SeedArgsValues]

SeedArgsRoundTrip ==
    /\ call.op = "seed_args_call"
    /\ call' = [op |-> "seed_args_return", args |-> call.args,
                data |-> SeedArgsSerialize(call.args),
                result |-> SeedArgsDeserialize(SeedArgsSerialize(call.args))]
    /\ UNCHANGED <<accounts, clock, stake_history>>

NextSeedArgs == SeedArgsRoundTrip

SpecSeedArgs == InitSeedArgs /\ [][NextSeedArgs]_vars

(***************************************************************************)
(* warmup_cooldown_rate as a pure function of the epoch and the cutover:   *)
(* both are u64 values, the largest one included.                          *)
(***************************************************************************)
RateEpochs == (0..(2 * MaxEpoch)) \cup {U64_MAX - 1, U64_MAX}

InitRate ==
    /\ accounts = NoAccounts
    /\ stake_history = NoHistory
    /\ clock = [epoch |-> 0, unix_timestamp |-> 0]
    /\ call \in [op : {"rate_call"}, current_epoch : RateEpochs,
                 new_rate_activation_epoch :
                     {None} \cup {Some(e) : e \in RateEpochs}]

RateCall ==
    /\ call.op = "rate_call"
    /\ call' = [op |-> "rate_return", current_epoch |-> call.current_epoch,
                new_rate_activation_epoch |-> call.new_rate_activation_epoch,
                result |-> warmup_cooldown_rate(call.current_epoch,
                                                call.new_rate_activation_epoch)]
    /\ UNCHANGED <<accounts, clock, stake_history>>

NextRate == RateCall

SpecRate == InitRate /\ [][NextRate]_vars

(***************************************************************************)
(* Delegation::stake_activating_and_deactivating as a pure function of the *)
(* delegation, the history and the epoch: the delegation and the history   *)
(* are drawn once and stay fixed, and each step evaluates the accounting   *)
(* at the next epoch, as the handlers do with target_epoch = clock.epoch   *)
(* and StakeHistorySysvar(clock.epoch).                                    *)
(***************************************************************************)
AccountingStakes == {1, 4, 10, 100}

\* The delegations a record can hold: activation_epoch <= deactivation_epoch,
\* the sentinel EPOCH_MAX included.
AccountingDelegations ==
    { del \in { MakeStake("V1", s, a, d, 1).delegation :
                  s \in AccountingStakes, a \in 0..MaxEpoch,
                  d \in (0..MaxEpoch) \cup {EPOCH_MAX} } :
        del.activation_epoch <= del.deactivation_epoch }

\* Histories with and without snapshots, with a gap, with no stake
\* deactivating, and with a pool that differs from epoch to epoch.
AccountingHistories ==
    InitHistories
    \cup { [e \in 0..MaxEpoch |-> HistoryEntry(100, 4, 0)],
           [e \in 0..MaxEpoch |-> IF e = 1 THEN NoEntry ELSE HistoryEntry(40, 4, 4)],
           [e \in 0..MaxEpoch |-> HistoryEntry(10 * (e + 1),
                                               IF e % 2 = 0 THEN 40 ELSE 4, 2)],
           [e \in 0..MaxEpoch |-> HistoryEntry(40, IF e = 1 THEN 0 ELSE 4, 4)] }

AccountingCutovers == {PERPETUAL_NEW_WARMUP_COOLDOWN_RATE_EPOCH, Some(2)}

InitAccounting ==
    /\ accounts = NoAccounts
    /\ stake_history \in AccountingHistories
    /\ clock = [epoch |-> 0, unix_timestamp |-> 0]
    /\ call \in [op : {"accounting_call"}, delegation : AccountingDelegations,
                 cutover : AccountingCutovers]

\* The accounting of the call's delegation at an epoch.
AccountingAt(epoch) ==
    stake_activating_and_deactivating(call.delegation, epoch, stake_history,
                                      epoch, call.cutover)

EvaluateNextEpoch ==
    /\ clock.epoch < MaxEpoch
    /\ clock' = [clock EXCEPT !.epoch = @ + 1]
    /\ call' = [op |-> "accounting_step", delegation |-> call.delegation,
                cutover |-> call.cutover,
                before |-> AccountingAt(clock.epoch),
                after |-> AccountingAt(clock.epoch + 1)]
    /\ UNCHANGED <<accounts, stake_history>>

NextAccounting == EvaluateNextEpoch

SpecAccounting == InitAccounting /\ [][NextAccounting]_vars

(***************************************************************************)
(* MergeKind::get_if_mergeable as a pure function of the stored record,    *)
(* the lamports, the clock and the stake history.                          *)
(***************************************************************************)
ClassifyStakes ==
    { MakeStake("V1", s, a, d, 1) :
        s \in {1, 4}, a \in 0..MaxEpoch, d \in (1..MaxEpoch) \cup {EPOCH_MAX} }

ClassifyStates ==
    {Uninitialized, RewardsPool}
    \cup {Initialized(m) : m \in SelfMetas}
    \cup {StakeState(m, s, f) : m \in SelfMetas, s \in ClassifyStakes, f \in AllFlags}

ClassifyHistories ==
    InitHistories
    \cup { [e \in 0..MaxEpoch |-> IF e = 0 THEN NoEntry ELSE HistoryEntry(40, 4, 4)],
           [e \in 0..MaxEpoch |-> HistoryEntry(100, 4, 0)] }

InitClassify ==
    /\ accounts = NoAccounts
    /\ stake_history \in ClassifyHistories
    /\ clock \in [epoch : 0..MaxEpoch, unix_timestamp : {0}]
    /\ call \in [op : {"classify_call"}, stake_state : ClassifyStates,
                 stake_lamports : {0, 7}]

ClassifyCall ==
    /\ call.op = "classify_call"
    /\ call' = [op |-> "classify_return", stake_state |-> call.stake_state,
                stake_lamports |-> call.stake_lamports,
                result |-> get_if_mergeable(call.stake_state, call.stake_lamports,
                                            clock, stake_history)]
    /\ UNCHANGED <<accounts, clock, stake_history>>

NextClassify == ClassifyCall

SpecClassify == InitClassify /\ [][NextClassify]_vars

(***************************************************************************)
(* MergeKind::metas_can_merge as a pure function of two metas and the      *)
(* clock.                                                                  *)
(***************************************************************************)
AllLockups == {NoLockup, EpochLockup, TimeLockup}
AllMetas ==
    { MakeMeta(r, s, w, l) :
        r \in {1, 2}, s \in {"A", "K"}, w \in {"W", "X"}, l \in AllLockups }

InitMetas ==
    /\ accounts = NoAccounts
    /\ stake_history = NoHistory
    /\ clock \in Clocks
    /\ call \in [op : {"metas_call"}, stake : AllMetas, source : AllMetas]

MetasCall ==
    /\ call.op = "metas_call"
    /\ call' = [op |-> "metas_return", stake |-> call.stake, source |-> call.source,
                result |-> metas_can_merge(call.stake, call.source, clock)]
    /\ UNCHANGED <<accounts, clock, stake_history>>

NextMetas == MetasCall

SpecMetas == InitMetas /\ [][NextMetas]_vars

(***************************************************************************)
(* merge_delegation_stake_and_credits_observed as a pure function of the   *)
(* destination's Stake, the absorbed lamports and the absorbed credits.    *)
(***************************************************************************)
CreditsStakeAmounts == {0, 1, 2, 500, U64_MAX - 1}
CreditsAbsorbedAmounts == {0, 1, 2, 500, U64_MAX}
CreditsValues == {0, 1, 4, 10, 20, U64_MAX}

InitCredits ==
    /\ accounts = NoAccounts
    /\ stake_history = NoHistory
    /\ clock = [epoch |-> 0, unix_timestamp |-> 0]
    /\ call \in [op : {"credits_call"},
                 stake : { MakeStake("V1", st, 0, EPOCH_MAX, c) :
                             st \in CreditsStakeAmounts, c \in CreditsValues },
                 absorbed_lamports : CreditsAbsorbedAmounts,
                 absorbed_credits_observed : CreditsValues]

CreditsCall ==
    /\ call.op = "credits_call"
    /\ call' = [op |-> "credits_return", stake |-> call.stake,
                absorbed_lamports |-> call.absorbed_lamports,
                absorbed_credits_observed |-> call.absorbed_credits_observed,
                result |-> merge_delegation_stake_and_credits_observed(
                               call.stake, call.absorbed_lamports,
                               call.absorbed_credits_observed)]
    /\ UNCHANGED <<accounts, clock, stake_history>>

NextCredits == CreditsCall

SpecCredits == InitCredits /\ [][NextCredits]_vars

(***************************************************************************)
(* redelegate_stake as a pure function of the Stake, the supplied stake    *)
(* amount, the vote target and its credits, the epoch and the history.     *)
(***************************************************************************)
RedelegateEpochs ==
    { ad \in (0..MaxEpoch) \X ((0..MaxEpoch) \cup {EPOCH_MAX}) : ad[1] <= ad[2] }
RedelegateStakes ==
    { MakeStake("V1", st, ad[1], ad[2], 1) :
        st \in {4, 40}, ad \in RedelegateEpochs }

\* The stake amounts a caller supplies, as bytes.
RedelegateAmounts == {to_le_bytes(3), to_le_bytes(ByteBase + 2)}

\* The credits of the vote account: 0, 1, and two values above one byte.
VoteCredits == {0, 1, ByteBase + 1, 2 * ByteBase + 1}

InitRedelegate ==
    /\ accounts = NoAccounts
    /\ stake_history \in ClassifyHistories
    /\ clock \in [epoch : 0..MaxEpoch, unix_timestamp : {0}]
    /\ call \in [op : {"redelegate_call"}, stake : RedelegateStakes,
                 stake_lamports : RedelegateAmounts, voter_pubkey : VoteKeys,
                 credits : VoteCredits]

RedelegateCall ==
    /\ call.op = "redelegate_call"
    /\ LET out == redelegate_stake(call.stake, call.stake_lamports,
                                   call.voter_pubkey, call.credits,
                                   to_le_bytes(clock.epoch), stake_history,
                                   clock.epoch)
       IN  call' = [op |-> "redelegate_return", stake |-> call.stake,
                    stake_lamports |-> call.stake_lamports,
                    voter_pubkey |-> call.voter_pubkey, credits |-> call.credits,
                    result |-> out.result, new_stake |-> out.stake]
    /\ UNCHANGED <<accounts, clock, stake_history>>

NextRedelegate == RedelegateCall

SpecRedelegate == InitRedelegate /\ [][NextRedelegate]_vars

(***************************************************************************)
(* Properties.  The definitions below state what the specification says;   *)
(* they do not use the operators that model the code they are checked      *)
(* against.                                                                *)
(***************************************************************************)
\* A lockup is in force while the clock is before its time or its epoch.
InForceAt(lockup, clk) ==
    clk.unix_timestamp < lockup.unix_timestamp \/ clk.epoch < lockup.epoch

\* metas_compatible of the specification (section 4.3).
MetasCompatible(a, b, clk) ==
    /\ a.authorized.staker = b.authorized.staker
    /\ a.authorized.withdrawer = b.authorized.withdrawer
    /\ \/ a.lockup = b.lockup
       \/ ~InForceAt(a.lockup, clk) /\ ~InForceAt(b.lockup, clk)

\* delegations_compatible of the specification (section 4.3).
DelegationsCompatible(a, b) ==
    /\ a.voter_pubkey = b.voter_pubkey
    /\ a.deactivation_epoch = EPOCH_MAX
    /\ b.deactivation_epoch = EPOCH_MAX

\* The credit-weighted merge of the specification (section 4.4a).
WeightedCredits(credits, stake, absorbed_credits, absorbed_lamports) ==
    IF credits = absorbed_credits THEN credits
    ELSE LET total == stake + absorbed_lamports
             weighted == credits * stake + absorbed_credits * absorbed_lamports
         IN  (weighted + total - 1) \div total

\* The destination record of a merge that absorbs `absorbed` lamports with
\* `absorbed_credits`: only the stake and the credits change.
Absorbing(self, absorbed, absorbed_credits, flags) ==
    StakeState(
        self.meta,
        [delegation |->
            [voter_pubkey |-> self.stake.delegation.voter_pubkey,
             stake |-> self.stake.delegation.stake + absorbed,
             activation_epoch |-> self.stake.delegation.activation_epoch,
             deactivation_epoch |-> self.stake.delegation.deactivation_epoch],
         credits_observed |->
            WeightedCredits(self.stake.credits_observed,
                            self.stake.delegation.stake,
                            absorbed_credits, absorbed)],
        flags)

MergeReturned == call.op = "merge_return"
KindsAre(self_kind, source_kind) ==
    call.self.kind = self_kind /\ call.source.kind = source_kind
CallCompatible ==
    /\ MetasCompatible(call.self.meta, call.source.meta, clock)
    /\ (call.self.kind # "Inactive" /\ call.source.kind # "Inactive")
        => DelegationsCompatible(call.self.stake.delegation,
                                 call.source.stake.delegation)

\* C4: merging two FullyActive records with compatible metas and delegations
\* absorbs only the source's delegation.stake (never its rent_exempt_reserve),
\* applies the credit-weighted merge with the source's credits_observed, keeps
\* the destination's meta, target and epochs, and yields empty flags; the merge
\* fails only when the summed stake leaves the u64 range.
C4_FullyActiveMerge ==
    (MergeReturned /\ KindsAre("FullyActive", "FullyActive") /\ CallCompatible)
    => IF call.self.stake.delegation.stake + call.source.stake.delegation.stake
            <= U64_MAX
       THEN call.result =
                Ok(Some(Absorbing(call.self, call.source.stake.delegation.stake,
                                  call.source.stake.credits_observed, {})))
       ELSE ~call.result.ok

C4_Witness ==
    /\ MergeReturned /\ KindsAre("FullyActive", "FullyActive") /\ CallCompatible
    /\ call.result.ok
    /\ call.source.meta.rent_exempt_reserve = 2
    /\ call.self.stake.credits_observed # call.source.stake.credits_observed
    /\ call.result.val.val.stake.delegation.stake
         = call.self.stake.delegation.stake + call.source.stake.delegation.stake

\* C5: merging two ActivationEpoch records with compatible metas and
\* delegations absorbs source.meta.rent_exempt_reserve + source.delegation.stake,
\* applies the credit-weighted merge with that amount and the source's
\* credits_observed, keeps the destination's meta, and yields the union of both
\* flag sets; the merge fails only when a sum leaves the u64 range.
C5_ActivationEpochMerge ==
    (MergeReturned /\ KindsAre("ActivationEpoch", "ActivationEpoch") /\ CallCompatible)
    => LET absorbed == call.source.meta.rent_exempt_reserve
                       + call.source.stake.delegation.stake
       IN  IF call.self.stake.delegation.stake + absorbed <= U64_MAX
           THEN call.result =
                    Ok(Some(Absorbing(call.self, absorbed,
                                      call.source.stake.credits_observed,
                                      call.self.flags \cup call.source.flags)))
           ELSE ~call.result.ok

C5_Witness ==
    /\ MergeReturned /\ KindsAre("ActivationEpoch", "ActivationEpoch")
    /\ CallCompatible
    /\ call.result.ok
    /\ call.self.flags = {} /\ call.source.flags = {MUST_FULLY_ACTIVATE}
    /\ call.result.val.val.flags = {MUST_FULLY_ACTIVATE}
    /\ call.self.stake.credits_observed # call.source.stake.credits_observed
    /\ call.result.val.val.stake.delegation.stake
         = call.self.stake.delegation.stake + 2 + call.source.stake.delegation.stake

\* C6: merging an ActivationEpoch destination with an Inactive source with
\* compatible metas adds the lamports carried by the source's Inactive class to
\* the destination's delegation stake, sets the flags to the union of both flag
\* sets and leaves the destination's meta, target, epochs and credits_observed
\* unchanged; the merge fails only when the sum leaves the u64 range.
C6_ActivationEpochInactiveMerge ==
    (MergeReturned /\ KindsAre("ActivationEpoch", "Inactive") /\ CallCompatible)
    => IF call.self.stake.delegation.stake + call.source.lamports <= U64_MAX
       THEN call.result =
                Ok(Some(StakeState(
                    call.self.meta,
                    [delegation |->
                        [voter_pubkey |-> call.self.stake.delegation.voter_pubkey,
                         stake |-> call.self.stake.delegation.stake
                                   + call.source.lamports,
                         activation_epoch |->
                             call.self.stake.delegation.activation_epoch,
                         deactivation_epoch |->
                             call.self.stake.delegation.deactivation_epoch],
                     credits_observed |-> call.self.stake.credits_observed],
                    call.self.flags \cup call.source.flags)))
       ELSE ~call.result.ok

C6_Witness ==
    /\ MergeReturned /\ KindsAre("ActivationEpoch", "Inactive") /\ CallCompatible
    /\ call.result.ok
    /\ call.source.meta.rent_exempt_reserve = 2
    /\ call.source.flags = {MUST_FULLY_ACTIVATE} /\ call.self.flags = {}
    /\ call.result.val.val.stake.delegation.stake
         = call.self.stake.delegation.stake + 3

\* C8: the pairings outside the five rows of the case table, (Inactive,
\* FullyActive), (ActivationEpoch, FullyActive), (FullyActive, Inactive) and
\* (FullyActive, ActivationEpoch), fail with MergeMismatch and produce no new
\* state, whether or not metas and delegations are compatible.
C8_OtherPairingsMismatch ==
    (/\ MergeReturned
     /\ \/ KindsAre("Inactive", "FullyActive")
        \/ KindsAre("ActivationEpoch", "FullyActive")
        \/ KindsAre("FullyActive", "Inactive")
        \/ KindsAre("FullyActive", "ActivationEpoch"))
    => call.result = Err("MergeMismatch")

C8_Witness ==
    /\ MergeReturned /\ KindsAre("FullyActive", "ActivationEpoch")
    /\ CallCompatible
    /\ call.result = Err("MergeMismatch")

\* C10: merge fails with MergeMismatch whenever the two metas are not
\* compatible, for every pairing of merge classes, including the pairings that
\* would otherwise return None and the inputs whose stake sum would overflow:
\* the metadata check comes before the delegation check and the case table.
C10_MetasCheckedFirst ==
    (MergeReturned /\ ~MetasCompatible(call.self.meta, call.source.meta, clock))
    => call.result = Err("MergeMismatch")

C10_Witness ==
    /\ MergeReturned /\ KindsAre("Inactive", "Inactive")
    /\ call.self.meta.authorized = call.source.meta.authorized
    /\ call.self.meta.lockup # call.source.meta.lockup
    /\ InForceAt(call.self.meta.lockup, clock)
    /\ ~InForceAt(call.source.meta.lockup, clock)
    /\ call.result = Err("MergeMismatch")

ClassifyReturned == call.op = "classify_return"

\* The accounting tuple of the record classified by the call.
CallStatus ==
    stake_activating_and_deactivating(
        call.stake_state.stake.delegation, clock.epoch, stake_history,
        clock.epoch, PERPETUAL_NEW_WARMUP_COOLDOWN_RATE_EPOCH)

C3_TransientRejected ==
    (/\ ClassifyReturned
     /\ call.stake_state.tag = "Stake"
     /\ CallStatus.effective > 0
     /\ (CallStatus.activating # 0 \/ CallStatus.deactivating # 0))
    => call.result = Err("MergeTransientStake")

C3_Witness ==
    /\ ClassifyReturned
    /\ call.stake_state.tag = "Stake"
    /\ CallStatus.effective > 0
    /\ CallStatus.activating > 0
    /\ call.result = Err("MergeTransientStake")

MetasReturned == call.op = "metas_return"

\* C9: metas_can_merge(a, b, clock) succeeds if and only if a and b have the
\* same staker and the same withdrawer and (the same lockup or neither lockup
\* in force at the clock), and fails with MergeMismatch otherwise; the
\* rent_exempt_reserve of neither meta has any part in the result.
C9_MetasCanMerge ==
    MetasReturned
    => call.result
         = IF MetasCompatible(call.stake, call.source, clock)
           THEN Ok(Unit)
           ELSE Err("MergeMismatch")

C9_Witness ==
    /\ MetasReturned
    /\ call.stake.rent_exempt_reserve # call.source.rent_exempt_reserve
    /\ call.stake.lockup # call.source.lockup
    /\ call.stake.lockup # NoLockup /\ call.source.lockup # NoLockup
    /\ call.result = Ok(Unit)

MergeDone == call.op = "merge"

\* The merge class the account had when the instruction started.
PreKind(id) ==
    get_if_mergeable(call.pre[id].state, call.pre[id].lamports, clock,
                     stake_history)

\* The amount of the source the case table stakes on the destination.
AbsorbedAmount(dest_kind, source_kind) ==
    IF source_kind.kind = "Inactive" THEN source_kind.lamports
    ELSE IF dest_kind.kind = "ActivationEpoch"
    THEN source_kind.meta.rent_exempt_reserve + source_kind.stake.delegation.stake
    ELSE source_kind.stake.delegation.stake

\* C1: conservation under merge.  After every process_merge that succeeds and
\* replaces the destination record, destination stake after + leftover =
\* destination stake before + the source's lamports before, where leftover =
\* the source's lamports minus the absorbed amount; the leftover is what the
\* destination's unstaked lamports grow by, and the source is left with nothing.
C1_MergeConservation ==
    (MergeDone /\ call.result.ok /\ PreKind(call.dest).val.kind # "Inactive")
    => LET source_lamports == call.pre[call.src].lamports
           leftover == source_lamports
                       - AbsorbedAmount(PreKind(call.dest).val,
                                        PreKind(call.src).val)
           before == call.pre[call.dest].state.stake.delegation.stake
           after == accounts[call.dest].state.stake.delegation.stake
       IN  /\ after + leftover = before + source_lamports
           /\ accounts[call.dest].lamports - after
                = (call.pre[call.dest].lamports - before) + leftover
           /\ accounts[call.src].lamports = 0

C1_Witness ==
    /\ MergeDone /\ call.result.ok
    /\ PreKind(call.dest).val.kind = "FullyActive"
    /\ PreKind(call.src).val.kind = "FullyActive"
    /\ call.pre[call.src].lamports
         > PreKind(call.src).val.stake.delegation.stake
    /\ accounts[call.dest].state.stake.delegation.stake
         > call.pre[call.dest].state.stake.delegation.stake

\* C7: for the pairings (Inactive, Inactive) and (Inactive, ActivationEpoch)
\* with compatible metas merge returns None, and a process_merge that takes
\* this path leaves the destination's stored record as it was: it succeeds
\* when the staker signed (and the summed balance fits a u64), and then only
\* the destination's lamports grow, by the source's balance.
C7_NoneLeavesDestination ==
    (/\ MergeDone /\ call.accounts_len = 4 /\ call.dest # call.src
     /\ PreKind(call.dest).ok /\ PreKind(call.src).ok
     /\ PreKind(call.dest).val.kind = "Inactive"
     /\ PreKind(call.src).val.kind \in {"Inactive", "ActivationEpoch"}
     /\ MetasCompatible(PreKind(call.dest).val.meta, PreKind(call.src).val.meta,
                        clock))
    => /\ merge(PreKind(call.dest).val, PreKind(call.src).val, clock) = Ok(None)
       /\ accounts[call.dest].state = call.pre[call.dest].state
       /\ (/\ PreKind(call.dest).val.meta.authorized.staker \in call.signers
           /\ call.pre[call.dest].lamports + call.pre[call.src].lamports
                <= U64_MAX)
            => call.result = Ok(Unit)
       /\ call.result.ok
            => accounts[call.dest].lamports
                 = call.pre[call.dest].lamports + call.pre[call.src].lamports

C7_Witness ==
    /\ MergeDone /\ call.result.ok
    /\ PreKind(call.dest).val.kind = "Inactive"
    /\ PreKind(call.src).val.kind = "ActivationEpoch"
    /\ call.pre[call.dest].state.tag = "Initialized"
    /\ accounts[call.dest].state = call.pre[call.dest].state
    /\ accounts[call.dest].lamports > call.pre[call.dest].lamports

\* The sum a merge of the two classes of the call computes: the destination's
\* stake plus the amount of the source the case table stakes.
MergeSum ==
    call.self.stake.delegation.stake + AbsorbedAmount(call.self, call.source)

\* C11: when both operands of merge carry a delegation (ActivationEpoch or
\* FullyActive) the merge succeeds only if both delegations have the same vote
\* target and both have the sentinel as deactivation_epoch, and fails with
\* MergeMismatch otherwise.  When at most one operand carries a delegation no
\* delegation check is made: with compatible metas an Inactive destination
\* returns None and an ActivationEpoch destination absorbs an Inactive source,
\* also when the one delegation present is deactivating.
C11_DelegationsChecked ==
    MergeReturned
    => /\ (call.self.kind # "Inactive" /\ call.source.kind # "Inactive")
           => /\ call.result.ok
                  => DelegationsCompatible(call.self.stake.delegation,
                                           call.source.stake.delegation)
              /\ ~DelegationsCompatible(call.self.stake.delegation,
                                        call.source.stake.delegation)
                  => call.result = Err("MergeMismatch")
       /\ (/\ MetasCompatible(call.self.meta, call.source.meta, clock)
           /\ call.self.kind = "Inactive"
           /\ call.source.kind \in {"Inactive", "ActivationEpoch"})
           => call.result = Ok(None)
       /\ (/\ MetasCompatible(call.self.meta, call.source.meta, clock)
           /\ KindsAre("ActivationEpoch", "Inactive")
           /\ MergeSum <= U64_MAX)
           => call.result.ok /\ call.result.val.some

C11_Witness ==
    /\ MergeReturned /\ KindsAre("FullyActive", "FullyActive")
    /\ MetasCompatible(call.self.meta, call.source.meta, clock)
    /\ call.self.stake.delegation.voter_pubkey
         = call.source.stake.delegation.voter_pubkey
    /\ call.self.stake.delegation.deactivation_epoch = EPOCH_MAX
    /\ call.source.stake.delegation.deactivation_epoch # EPOCH_MAX
    /\ call.result = Err("MergeMismatch")

\* An ActivationEpoch destination that is itself deactivating absorbs an
\* Inactive source: the one delegation present is not checked.
C11_WitnessUnchecked ==
    /\ MergeReturned /\ KindsAre("ActivationEpoch", "Inactive")
    /\ call.self.stake.delegation.deactivation_epoch # EPOCH_MAX
    /\ call.result.ok

CreditsReturned == call.op = "credits_return"

\* The inputs of the credit-weighted merge of the call.
CallCredits == call.stake.credits_observed
CallStake == call.stake.delegation.stake
CallTotal == call.stake.delegation.stake + call.absorbed_lamports
CallWeighted ==
    call.stake.credits_observed * call.stake.delegation.stake
    + call.absorbed_credits_observed * call.absorbed_lamports

\* C12: the credit-weighted merge with differing credits succeeds whenever the
\* summed stake is positive and fits a u64, and then the new stake is s_dest +
\* l_abs and the new credits_observed is (weighted + total - 1) / total, which
\* is the ceiling of weighted / total, with weighted = c_dest * s_dest + c_abs *
\* l_abs and total = s_dest + l_abs; nothing else of the Stake changes.  Stake
\* 500 with credits 10 absorbing stake 500 with credits 20 gives stake 1000 and
\* credits 15.
C12_WeightedCredits ==
    (CreditsReturned /\ CallCredits # call.absorbed_credits_observed)
    => /\ (0 < CallTotal /\ CallTotal <= U64_MAX) => call.result.ok
       /\ call.result.ok
           => /\ call.result.val
                   = [call.stake EXCEPT
                        !.delegation.stake = CallTotal,
                        !.credits_observed =
                            (CallWeighted + CallTotal - 1) \div CallTotal]
              /\ call.result.val.credits_observed * CallTotal >= CallWeighted
              /\ (call.result.val.credits_observed - 1) * CallTotal < CallWeighted
       /\ (/\ CallStake = 500 /\ CallCredits = 10
           /\ call.absorbed_lamports = 500
           /\ call.absorbed_credits_observed = 20)
           => /\ call.result.ok
              /\ call.result.val.delegation.stake = 1000
              /\ call.result.val.credits_observed = 15

C12_Witness ==
    /\ CreditsReturned
    /\ CallStake = 500 /\ CallCredits = 10
    /\ call.absorbed_lamports = 500 /\ call.absorbed_credits_observed = 20
    /\ call.result.ok
    /\ call.result.val.delegation.stake = 1000
    /\ call.result.val.credits_observed = 15

\* C13: whenever the absorbed credits_observed equals the destination's, the
\* credit-weighted merge leaves credits_observed as it was, for every stake
\* and every absorbed amount, zero amounts included: the merge returns the
\* Stake with only the stake raised by the absorbed amount, and fails only when
\* that sum leaves the u64 range.
C13_EqualCreditsUnchanged ==
    (CreditsReturned /\ CallCredits = call.absorbed_credits_observed)
    => IF CallTotal <= U64_MAX
       THEN call.result = Ok([call.stake EXCEPT !.delegation.stake = CallTotal])
       ELSE ~call.result.ok

C13_Witness ==
    /\ CreditsReturned
    /\ CallCredits = call.absorbed_credits_observed /\ CallCredits = 4
    /\ CallStake = 0 /\ call.absorbed_lamports = 0
    /\ call.result.ok
    /\ call.result.val.credits_observed = 4

\* The call is a merge of one of the three absorbing rows of the case table,
\* with compatible metas and delegations, whose stake summation leaves the u64
\* range.
MergeOverflows ==
    /\ MergeReturned /\ CallCompatible
    /\ \/ KindsAre("ActivationEpoch", "Inactive")
       \/ KindsAre("ActivationEpoch", "ActivationEpoch")
       \/ KindsAre("FullyActive", "FullyActive")
    /\ MergeSum > U64_MAX

\* C14 as claimed: every merge whose stake summation leaves the u64 range fails
\* with ArithmeticOverflow, in all three absorbing cases and whether or not the
\* two credits_observed values are equal.
C14_OverflowIsArithmeticOverflow ==
    MergeOverflows => call.result = Err("ArithmeticOverflow")

\* C14, amended: every merge whose stake summation leaves the u64 range fails
\* and never wraps around.  The error is ArithmeticOverflow when destination
\* stake + absorbed amount overflows in a credit-weighted merge (ActivationEpoch
\* with ActivationEpoch, FullyActive with FullyActive) whose two
\* credits_observed values differ, and InsufficientFunds otherwise: for
\* ActivationEpoch with Inactive, for an overflowing source reserve + source
\* stake, and for equal credits_observed.
C14_OverflowFails ==
    MergeOverflows
    => call.result =
         IF /\ call.source.kind # "Inactive"
            /\ AbsorbedAmount(call.self, call.source) <= U64_MAX
            /\ call.self.stake.credits_observed
                 # call.source.stake.credits_observed
         THEN Err("ArithmeticOverflow")
         ELSE Err("InsufficientFunds")

C14_Witness ==
    /\ MergeOverflows /\ KindsAre("FullyActive", "FullyActive")
    /\ call.self.stake.credits_observed = call.source.stake.credits_observed
    /\ call.result = Err("InsufficientFunds")

RedelegateReturned == call.op = "redelegate_return"

\* The effective stake of the delegation of the call at the clock's epoch
\* (specification section 4.2).
CallEffective ==
    stake_activating_and_deactivating(
        call.stake.delegation, clock.epoch, stake_history, clock.epoch,
        PERPETUAL_NEW_WARMUP_COOLDOWN_RATE_EPOCH).effective

\* The call is the one that rescinds a deactivation: same target, at the
\* scheduled deactivation epoch.
CallRescinds ==
    /\ call.voter_pubkey = call.stake.delegation.voter_pubkey
    /\ clock.epoch = call.stake.delegation.deactivation_epoch

\* C17: redelegate on a delegation whose effective stake is nonzero fails with
\* TooSoonToRedelegate and leaves the delegation as it was, unless the new
\* target is the current target and the epoch is the scheduled
\* deactivation_epoch; in no case does a delegation with nonzero effective
\* stake change its target or its stake amount.
C17_TooSoonToRedelegate ==
    (RedelegateReturned /\ CallEffective # 0)
    => /\ ~CallRescinds
           => /\ call.result = Err("TooSoonToRedelegate")
              /\ call.new_stake = call.stake
       /\ call.new_stake.delegation.voter_pubkey
            = call.stake.delegation.voter_pubkey
       /\ call.new_stake.delegation.stake = call.stake.delegation.stake

C17_Witness ==
    /\ RedelegateReturned /\ CallEffective # 0
    /\ call.voter_pubkey = call.stake.delegation.voter_pubkey
    /\ call.stake.delegation.deactivation_epoch < clock.epoch
    /\ call.result = Err("TooSoonToRedelegate")

\* C18: redelegate with nonzero effective stake, the new target equal to the
\* current target and the epoch equal to delegation.deactivation_epoch succeeds
\* and resets deactivation_epoch to the sentinel; stake, activation_epoch,
\* target and credits_observed stay as they were, whatever stake amount and
\* credits the caller supplied.
C18_RescindDeactivation ==
    (RedelegateReturned /\ CallEffective # 0 /\ CallRescinds)
    => /\ call.result = Ok(Unit)
       /\ call.new_stake
            = [delegation |->
                 [voter_pubkey |-> call.stake.delegation.voter_pubkey,
                  stake |-> call.stake.delegation.stake,
                  activation_epoch |-> call.stake.delegation.activation_epoch,
                  deactivation_epoch |-> EPOCH_MAX],
               credits_observed |-> call.stake.credits_observed]

C18_Witness ==
    /\ RedelegateReturned /\ CallEffective # 0 /\ CallRescinds
    /\ from_le_bytes(call.stake_lamports) # call.stake.delegation.stake
    /\ call.credits # call.stake.credits_observed
    /\ call.result = Ok(Unit)
    /\ call.new_stake.delegation.deactivation_epoch = EPOCH_MAX

\* C19: redelegate on a delegation whose effective stake is zero overwrites it
\* in full: afterwards delegation.stake is the supplied stake amount,
\* activation_epoch the current epoch, deactivation_epoch the sentinel, the
\* target the new target, and credits_observed the vote target's current
\* credits, each read back as the number that was supplied.
C19_FullOverwrite ==
    (RedelegateReturned /\ CallEffective = 0)
    => /\ call.result = Ok(Unit)
       /\ call.new_stake
            = [delegation |->
                 [voter_pubkey |-> call.voter_pubkey,
                  stake |-> from_le_bytes(call.stake_lamports),
                  activation_epoch |-> clock.epoch,
                  deactivation_epoch |-> EPOCH_MAX],
               credits_observed |-> call.credits]

\* The last step was an instruction; call.pre holds the accounts before it.
InstructionDone == call.op \in {"delegate", "merge", "move_lamports"}

\* C15: no partial writes.  Whenever an instruction returns an error, every
\* stored record and every lamport balance is what it was before the call,
\* also when the error is the destination's balance overflowing at the final
\* transfer of process_merge or of a lamport relocation.
C15_NoPartialWrites ==
    (InstructionDone /\ ~call.result.ok) => accounts = call.pre

\* C16: the delegation invariant.  In every state reached by delegate,
\* redelegate, merge and move_lamports from accounts that satisfy it, every
\* delegated record has delegation.stake <= lamports - rent_exempt_reserve.
C16_DelegationInvariant ==
    \A id \in AccountIds :
        accounts[id].state.tag = "Stake"
        => accounts[id].state.stake.delegation.stake
             + accounts[id].state.meta.rent_exempt_reserve
           <= accounts[id].lamports

\* The account whose staker an instruction checks, and the keys that signed.
CallStakerAccount ==
    IF call.op = "delegate" THEN call.stake_account
    ELSE IF call.op = "merge" THEN call.dest
    ELSE call.source
CallSigners ==
    IF call.op = "move_lamports"
    THEN (IF call.is_signer THEN {call.authority} ELSE {})
    ELSE call.signers

\* C20: the staker role check.  process_delegate on the stake account,
\* process_merge on the destination and process_move_lamports on the source
\* fail, changing nothing, unless one of the supplied signers is the staker
\* recorded in the account's Meta.  (The claim also names the error,
\* MissingRequiredSignature; the formula asks only for a failure.)
C20_StakerMustSign ==
    (/\ InstructionDone
     /\ call.pre[CallStakerAccount].state.tag \in {"Initialized", "Stake"}
     /\ call.pre[CallStakerAccount].state.meta.authorized.staker \notin CallSigners)
    => ~call.result.ok /\ accounts = call.pre

SetLockupDone == call.op = "set_lockup"

\* A set_lockup call with well-formed data on a record that has a Meta, and
\* that Meta as stored before the call.
SetLockupOnMeta ==
    /\ SetLockupDone
    /\ call.lockup_args.ok
    /\ call.accounts_len >= 1
    /\ call.pre[call.stake_account].state.tag \in {"Initialized", "Stake"}
CallMeta == call.pre[call.stake_account].state.meta

\* The signature the gate asks for: the custodian's while the lockup is in
\* force at the clock, the withdrawer's otherwise.
GateSignerPresent ==
    IF LockupIsInForce(CallMeta.lockup, clock, None)
    THEN CallMeta.lockup.custodian \in call.signers
    ELSE CallMeta.authorized.withdrawer \in call.signers

\* C21: the set_lockup gate.  While the lockup recorded before the call is
\* in force at the clock, set_lockup succeeds only with the signature of the
\* recorded custodian; while it is not, only with the signature of the
\* recorded withdrawer; without that signature it fails with
\* MissingRequiredSignature.
C21_SetLockupGate ==
    SetLockupOnMeta
    => /\ call.result.ok => GateSignerPresent
       /\ ~GateSignerPresent => call.result = Err("MissingRequiredSignature")

\* The same gate on the accounts try_get_stake_state_mut lets through.
SetLockupGateOtherOwner ==
    (SetLockupOnMeta /\ call.owner # ID)
    => /\ call.result.ok => GateSignerPresent
       /\ ~GateSignerPresent => call.result = Err("MissingRequiredSignature")

AuthorizeDone == call.op = "authorize"

\* An authorize call on a record that has a Meta (CallMeta, as stored before
\* the call), and the authorities the record holds after it.
AuthorizeOnMeta ==
    /\ AuthorizeDone
    /\ call.pre[call.stake_account].state.tag \in {"Initialized", "Stake"}
AuthorizedAfter == accounts[call.stake_account].state.meta.authorized

\* The result of the same call on the same record without a lockup.
ResultWithoutLockup ==
    process_authorize_checked(
        [call.pre EXCEPT ![call.stake_account].state.meta.lockup = NoLockup],
        clock, call.stake_account, call.owner, call.signers, call.new_authority,
        call.authority_type, call.accounts_len, call.lockup_authority).result

\* C22: authority change under lockup.  While the lockup recorded before the
\* call is in force at the clock, a change of the withdrawer succeeds only
\* if the custodian and the current withdrawer have both signed, and without
\* the custodian's signature it fails and leaves both authorities as they
\* were; a change of the staker has the result it has without a lockup.
C22_WithdrawerChangeUnderLockup ==
    AuthorizeOnMeta
    => /\ (/\ call.authority_type = "Withdrawer"
           /\ LockupIsInForce(CallMeta.lockup, clock, None))
          => /\ call.result.ok
                => /\ CallMeta.lockup.custodian \in call.signers
                   /\ CallMeta.authorized.withdrawer \in call.signers
             /\ CallMeta.lockup.custodian \notin call.signers
                => ~call.result.ok /\ AuthorizedAfter = CallMeta.authorized
       /\ call.authority_type = "Staker" => call.result = ResultWithoutLockup

\* The same on records whose withdrawer is not the all-zero key.
WithdrawerChangeUnderLockupNamedKey ==
    (AuthorizeOnMeta /\ CallMeta.authorized.withdrawer # DEFAULT_PUBKEY)
    => C22_WithdrawerChangeUnderLockup

\* A merge or a move_lamports whose source and destination are one account.
SameAccountCall ==
    \/ call.op = "merge" /\ call.dest = call.src
    \/ call.op = "move_lamports" /\ call.source = call.destination

\* C23: two-record operations require distinct records.  process_merge and
\* process_move_lamports called with the source and the destination being
\* the same account fail and leave the record and its balance unchanged.
C23_DistinctRecords ==
    SameAccountCall => ~call.result.ok /\ accounts = call.pre

\* A delegated account merged into itself with its staker's signature.
C23_Witness ==
    /\ call.op = "merge" /\ call.dest = call.src /\ call.accounts_len = 4
    /\ call.pre[call.dest].state.tag = "Stake"
    /\ call.pre[call.dest].state.meta.authorized.staker \in call.signers
    /\ call.result = Err("InvalidArgument")
    /\ accounts = call.pre

MoveDone == call.op = "move_lamports"

\* The class of the source before the move, what it must keep (its minimum
\* balance, and its delegated stake when FullyActive) and its free lamports.
SourceKind == PreKind(call.source)
SourceKept ==
    SourceKind.val.meta.rent_exempt_reserve
    + (IF SourceKind.val.kind = "FullyActive"
       THEN SourceKind.val.stake.delegation.stake ELSE 0)
SourceFree ==
    IF call.pre[call.source].lamports >= SourceKept
    THEN call.pre[call.source].lamports - SourceKept
    ELSE 0
BalancesUnchanged ==
    \A id \in AccountIds : accounts[id].lamports = call.pre[id].lamports

\* C24: process_move_lamports succeeds only from an Inactive or FullyActive
\* source and with 0 < amount <= the source's free lamports (balance -
\* minimum balance, less the delegated stake when FullyActive, saturating at
\* 0); a zero amount, an amount above free and an ActivationEpoch source fail
\* with no balance changed; after a successful move the source still holds
\* its minimum balance, plus its delegated stake when FullyActive.
C24_MoveWithinFreeLamports ==
    MoveDone
    => /\ call.result.ok
          => /\ SourceKind.ok
             /\ SourceKind.val.kind \in {"Inactive", "FullyActive"}
             /\ 0 < call.lamports /\ call.lamports <= SourceFree
             /\ accounts[call.source].lamports >= SourceKept
       /\ (\/ call.lamports = 0
           \/ /\ SourceKind.ok
              /\ \/ SourceKind.val.kind = "ActivationEpoch"
                 \/ call.lamports > SourceFree)
          => ~call.result.ok /\ BalancesUnchanged

\* A successful move out of a FullyActive source.
C24_Witness ==
    /\ MoveDone
    /\ call.result.ok
    /\ SourceKind.val.kind = "FullyActive"
    /\ accounts[call.source].lamports = call.pre[call.source].lamports - call.lamports

\* Moves that fail: from an ActivationEpoch source, and of more than is free.
C24_WitnessRejected ==
    /\ MoveDone
    /\ SourceKind.ok
    /\ SourceKind.val.kind = "ActivationEpoch"
    /\ call.result = Err("InvalidAccountData")

\* The last step was one of the five instructions, and the accounts it names.
AnyInstructionDone ==
    call.op \in {"delegate", "merge", "move_lamports", "set_lockup", "authorize"}
NamedAccounts ==
    IF call.op = "merge" THEN {call.dest, call.src}
    ELSE IF call.op = "move_lamports" THEN {call.source, call.destination}
    ELSE {call.stake_account}

\* The lamports of the source of a merge are all with the destination.
MergeLamportsMoved ==
    /\ accounts[call.src].lamports = 0
    /\ accounts[call.dest].lamports
         = call.pre[call.dest].lamports + call.pre[call.src].lamports

\* C25: absorbed accounts stay absorbed.  After a successful process_merge
\* the source is Uninitialized with balance 0 and the destination holds the
\* sum of both balances; the source becomes Uninitialized as the last step
\* of the merge, so only once the lamports have been moved; and no later
\* delegate, authorize, set_lockup, merge or move_lamports naming an absorbed
\* account succeeds.
C25_AbsorbedStaysAbsorbed ==
    /\ MergeDone
       => /\ call.result.ok
             => /\ accounts[call.src].state = Uninitialized
                /\ MergeLamportsMoved
          /\ (/\ call.pre[call.src].state # Uninitialized
              /\ accounts[call.src].state = Uninitialized)
             => MergeLamportsMoved
    /\ (/\ AnyInstructionDone
        /\ \E id \in NamedAccounts : call.pre[id] = Account(Uninitialized, 0))
       => ~call.result.ok

\* The same without the order of the steps of the merge.
AbsorbedStaysAbsorbedUnordered ==
    /\ (MergeDone /\ call.result.ok)
       => accounts[call.src].state = Uninitialized /\ MergeLamportsMoved
    /\ (/\ AnyInstructionDone
        /\ \E id \in NamedAccounts : call.pre[id] = Account(Uninitialized, 0))
       => ~call.result.ok

TagBefore(id) == call.pre[id].state.tag
TagAfter(id) == accounts[id].state.tag

\* C26: forward-only lifecycle.  An instruction changes the tag of a record
\* only from Initialized to Delegated, as the account of a successful
\* delegate, or from Initialized or Delegated to Uninitialized, as the source
\* of a successful merge; so authorize, set_lockup, move_lamports and being
\* the destination of a merge never change a tag.
C26_ForwardOnlyLifecycle ==
    AnyInstructionDone
    => \A id \in AccountIds :
          TagAfter(id) # TagBefore(id)
          => \/ /\ TagBefore(id) = "Initialized" /\ TagAfter(id) = "Stake"
                /\ call.op = "delegate" /\ call.stake_account = id
                /\ call.result.ok
             \/ /\ TagBefore(id) \in {"Initialized", "Stake"}
                /\ TagAfter(id) = "Uninitialized"
                /\ call.op = "merge" /\ call.src = id
                /\ call.result.ok

\* The same for the source of a merge that succeeds or fails.
ForwardOnlyLifecycleAnyMerge ==
    AnyInstructionDone
    => \A id \in AccountIds :
          TagAfter(id) # TagBefore(id)
          => \/ /\ TagBefore(id) = "Initialized" /\ TagAfter(id) = "Stake"
                /\ call.op = "delegate" /\ call.stake_account = id
                /\ call.result.ok
             \/ /\ TagBefore(id) \in {"Initialized", "Stake"}
                /\ TagAfter(id) = "Uninitialized"
                /\ call.op = "merge" /\ call.src = id

WrongLifecycleTags == {"Uninitialized", "RewardsPool"}

\* An instruction naming a record tagged Uninitialized or RewardsPool fails
\* and leaves that record and its balance as they were, and no instruction
\* modifies a RewardsPool record.
WrongLifecycleUntouched ==
    AnyInstructionDone
    => /\ \A id \in NamedAccounts :
             TagBefore(id) \in WrongLifecycleTags
             => ~call.result.ok /\ accounts[id] = call.pre[id]
       /\ \A id \in AccountIds :
             TagBefore(id) = "RewardsPool" => accounts[id] = call.pre[id]

\* The classification of every record tagged Uninitialized or RewardsPool
\* fails with the error e.
WrongLifecycleClassifiesAs(e) ==
    \A id \in AccountIds :
        accounts[id].state.tag \in WrongLifecycleTags
        => get_if_mergeable(accounts[id].state, accounts[id].lamports, clock,
                            stake_history) = Err(e)

\* C27 as claimed: delegate, authorize, set_lockup, merge (as destination or
\* source) and move_lamports applied to a record tagged Uninitialized or
\* RewardsPool always fail, the classification failing with
\* InvalidAccountState, and leave the record and its balance unchanged; a
\* RewardsPool record is never modified.
C27_WrongLifecycleInvalidAccountState ==
    WrongLifecycleUntouched /\ WrongLifecycleClassifiesAs("InvalidAccountState")

\* C27 as amended: the same, the classification failing with
\* InvalidAccountData.
C27_WrongLifecycleRejected ==
    WrongLifecycleUntouched /\ WrongLifecycleClassifiesAs("InvalidAccountData")

\* A delegate on an Uninitialized or RewardsPool record, signed and with its
\* five accounts.
C27_Witness ==
    /\ call.op = "delegate"
    /\ TagBefore(call.stake_account) \in WrongLifecycleTags
    /\ call.accounts_len = 5
    /\ call.signers # {}
    /\ call.result = Err("InvalidAccountData")
    /\ accounts = call.pre

\* The delegation classified by the call.
CallDelegation == call.stake_state.stake.delegation

\* C28: the activation-epoch edge case.  For a delegation with stake > 0 and
\* no deactivation, the accounting at current_epoch = activation_epoch is
\* (effective = 0, activating = stake, deactivating = 0) for every history,
\* the empty one too, and the record classifies as ActivationEpoch.
C28_ActivationEpochEdge ==
    (/\ ClassifyReturned
     /\ call.stake_state.tag = "Stake"
     /\ CallDelegation.stake > 0
     /\ CallDelegation.deactivation_epoch = EPOCH_MAX
     /\ clock.epoch = CallDelegation.activation_epoch)
    => /\ CallStatus = StakeActivationStatus(0, CallDelegation.stake, 0)
       /\ call.result = Ok(ActivationEpoch(call.stake_state.meta,
                                           call.stake_state.stake,
                                           call.stake_state.flags))

\* A delegation evaluated in its activation epoch against a history that has
\* a snapshot of that epoch.
C28_Witness ==
    /\ ClassifyReturned
    /\ call.stake_state.tag = "Stake"
    /\ CallDelegation.stake = 4
    /\ CallDelegation.deactivation_epoch = EPOCH_MAX
    /\ clock.epoch = CallDelegation.activation_epoch
    /\ clock.epoch > 0
    /\ stake_history[clock.epoch].present
    /\ call.result.ok /\ call.result.val.kind = "ActivationEpoch"

\* C29: the accounting is (0, 0, 0) whenever current_epoch < activation_epoch
\* and whenever current_epoch = activation_epoch = deactivation_epoch,
\* whatever the stake and the history; the record then classifies as
\* Inactive and its effective stake, as redelegation reads it, is zero.
C29_NotYetOrNeverActive ==
    (/\ ClassifyReturned
     /\ call.stake_state.tag = "Stake"
     /\ \/ clock.epoch < CallDelegation.activation_epoch
        \/ /\ clock.epoch = CallDelegation.activation_epoch
           /\ clock.epoch = CallDelegation.deactivation_epoch)
    => /\ CallStatus = StakeActivationStatus(0, 0, 0)
       /\ call.result = Ok(Inactive(call.stake_state.meta, call.stake_lamports,
                                    call.stake_state.flags))
       /\ StakeStake(call.stake_state.stake, clock.epoch, stake_history,
                     clock.epoch, PERPETUAL_NEW_WARMUP_COOLDOWN_RATE_EPOCH) = 0

\* A delegation activated and deactivated in the epoch of the clock, and one
\* that activates after it, against a history with snapshots.
C29_Witness ==
    /\ ClassifyReturned
    /\ call.stake_state.tag = "Stake"
    /\ CallDelegation.stake = 4
    /\ clock.epoch = CallDelegation.activation_epoch
    /\ clock.epoch = CallDelegation.deactivation_epoch
    /\ stake_history[0].present
    /\ call.result.ok /\ call.result.val.kind = "Inactive"

C29_WitnessNotYet ==
    /\ ClassifyReturned
    /\ call.stake_state.tag = "Stake"
    /\ clock.epoch < CallDelegation.activation_epoch
    /\ CallDelegation.deactivation_epoch = EPOCH_MAX
    /\ stake_history[0].present
    /\ call.result.ok /\ call.result.val.kind = "Inactive"

\* The accounting was evaluated at clock.epoch - 1 (before) and at
\* clock.epoch (after).
AccountingStepped == call.op = "accounting_step"

\* C30: monotonic activation.  For a delegation with activation_epoch = E and
\* no deactivation, under a fixed history: effective(E) = 0; from E on,
\* effective(epoch) never decreases from one epoch to the next, never
\* exceeds stake, and stays at stake once it has reached it.
C30_MonotonicActivation ==
    (/\ AccountingStepped
     /\ call.delegation.deactivation_epoch = EPOCH_MAX)
    => LET E == call.delegation.activation_epoch
       IN  /\ clock.epoch - 1 = E => call.before.effective = 0
           /\ clock.epoch = E => call.after.effective = 0
           /\ call.before.effective <= call.delegation.stake
           /\ call.after.effective <= call.delegation.stake
           /\ clock.epoch - 1 >= E
              => call.before.effective <= call.after.effective
           /\ (clock.epoch - 1 > E
               /\ call.before.effective = call.delegation.stake)
              => call.after.effective = call.delegation.stake

\* A delegation that warms up over several epochs: still below its stake
\* two epochs after activation, at its stake one epoch later.
C30_Witness ==
    /\ AccountingStepped
    /\ call.delegation.deactivation_epoch = EPOCH_MAX
    /\ clock.epoch - 1 > call.delegation.activation_epoch + 1
    /\ call.before.effective > 0
    /\ call.before.effective < call.delegation.stake
    /\ call.after.effective = call.delegation.stake

\* A delegation that has reached its stake and is evaluated once more.
C30_WitnessSaturated ==
    /\ AccountingStepped
    /\ call.delegation.deactivation_epoch = EPOCH_MAX
    /\ clock.epoch - 1 > call.delegation.activation_epoch
    /\ stake_history[call.delegation.activation_epoch].present
    /\ call.before.effective = call.delegation.stake
    /\ call.after.effective = call.delegation.stake

\* C31: monotonic deactivation.  For a delegation whose deactivation_epoch
\* is set to D, under a fixed history: from D on, effective(epoch) never
\* increases from one epoch to the next, is never below 0, and stays at 0
\* once it has reached it; activating is 0 at every epoch >= D.
C31_MonotonicDeactivation ==
    (/\ AccountingStepped
     /\ call.delegation.deactivation_epoch # EPOCH_MAX
     /\ clock.epoch - 1 >= call.delegation.deactivation_epoch)
    => /\ call.after.effective <= call.before.effective
       /\ call.before.effective >= 0
       /\ call.after.effective >= 0
       /\ call.before.effective = 0 => call.after.effective = 0
       /\ call.before.activating = 0
       /\ call.after.activating = 0

\* A delegation that cools down over several epochs: effective at D, less
\* but not zero one epoch later, zero after that.
C31_Witness ==
    /\ AccountingStepped
    /\ call.delegation.deactivation_epoch # EPOCH_MAX
    /\ clock.epoch - 1 > call.delegation.deactivation_epoch
    /\ call.before.effective > 0
    /\ call.before.effective < call.delegation.stake
    /\ call.after.effective < call.before.effective

\* A delegation that has cooled down to 0 and is evaluated once more.
C31_WitnessDrained ==
    /\ AccountingStepped
    /\ call.delegation.deactivation_epoch # EPOCH_MAX
    /\ call.delegation.activation_epoch < call.delegation.deactivation_epoch
    /\ clock.epoch - 1 > call.delegation.deactivation_epoch
    /\ stake_history[call.delegation.deactivation_epoch].present
    /\ call.before.effective = 0
    /\ call.after.effective = 0

RateReturned == call.op = "rate_return"

\* The rate the sentence gives for an epoch and a cutover: the legacy rate
\* before the cutover, the new rate from it on, the legacy rate always when
\* there is no cutover.
RateAsStated(epoch, cutover) ==
    IF cutover.some /\ epoch >= cutover.val
    THEN NEW_WARMUP_COOLDOWN_RATE
    ELSE DEFAULT_WARMUP_COOLDOWN_RATE

\* C33: warmup_cooldown_rate(epoch, cutover) is the legacy rate 0.25 when
\* epoch < cutover and the new rate 0.09 when epoch >= cutover; with no
\* cutover it is 0.25 for every epoch, with the perpetual cutover (epoch 0)
\* 0.09 for every epoch; no other value is returned.
C33_RateTable ==
    RateReturned
    => /\ call.result \in {DEFAULT_WARMUP_COOLDOWN_RATE, NEW_WARMUP_COOLDOWN_RATE}
       /\ call.result = RateAsStated(call.current_epoch,
                                     call.new_rate_activation_epoch)
       /\ call.new_rate_activation_epoch = None
          => call.result = DEFAULT_WARMUP_COOLDOWN_RATE
       /\ call.new_rate_activation_epoch = PERPETUAL_NEW_WARMUP_COOLDOWN_RATE_EPOCH
          => call.result = NEW_WARMUP_COOLDOWN_RATE

\* The same table for every call but the one with no cutover at the
\* largest epoch.
RateTableBelowMaxEpoch ==
    (/\ RateReturned
     /\ ~(call.new_rate_activation_epoch = None /\ call.current_epoch = U64_MAX))
    => /\ call.result = RateAsStated(call.current_epoch,
                                     call.new_rate_activation_epoch)
       /\ call.new_rate_activation_epoch = PERPETUAL_NEW_WARMUP_COOLDOWN_RATE_EPOCH
          => call.result = NEW_WARMUP_COOLDOWN_RATE

\* With no cutover, the largest epoch gets the new rate.
RateNoCutoverAtMaxEpoch ==
    /\ RateReturned
    /\ call.new_rate_activation_epoch = None
    /\ call.current_epoch = U64_MAX
    /\ call.result = NEW_WARMUP_COOLDOWN_RATE

FromDataReturned == call.op = "from_data_return"

\* C34: LockupArgs round trip.  For every LockupArgs value, each of
\* unix_timestamp, epoch and custodian present or absent and whatever the
\* payload bytes, from_data of the serialized form (per field one presence
\* byte, then 8, 8 or 32 payload bytes when present) returns the value.
C34_LockupArgsRoundTrip ==
    FromDataReturned
    => /\ Len(call.data) = 3 + (IF call.args.unix_timestamp.some THEN 8 ELSE 0)
                             + (IF call.args.epoch.some THEN 8 ELSE 0)
                             + (IF call.args.custodian.some THEN 32 ELSE 0)
       /\ call.result = Ok(call.args)

\* All 8 combinations of presence come back, with payload bytes equal to 1.
FromDataCombinationReturned(t, e, c) ==
    /\ FromDataReturned
    /\ call.args.unix_timestamp.some = t
    /\ call.args.epoch.some = e
    /\ call.args.custodian.some = c
    /\ call.result.ok

C34_Witness ==
    /\ FromDataCombinationReturned(FALSE, TRUE, TRUE)
    /\ call.args.epoch.val = [i \in 1..8 |-> 1]
    /\ call.args.custodian.val = [i \in 1..32 |-> 1]
    /\ Len(call.data) = 43

C34_WitnessEpochOnly ==
    /\ FromDataCombinationReturned(FALSE, TRUE, FALSE)
    /\ call.args.epoch.val = [i \in 1..8 |-> IF i = 8 THEN 1 ELSE 0]
    /\ Len(call.data) = 11

C34_WitnessAll ==
    /\ FromDataCombinationReturned(TRUE, TRUE, TRUE)
    /\ Len(call.data) = 51

SeedArgsReturned == call.op = "seed_args_return"

SeedLenMatches == call.args.authority_seed_len = Len(call.args.authority_seed)

\* C35: AuthorizeCheckedWithSeedArgs round trip.  For every value whose
\* authority_seed_len is the byte length of authority_seed, whatever that
\* length (short and empty seeds too), deserialize(serialize(args)) succeeds
\* and returns the same stake_authorize, authority_seed_len, authority_seed
\* and authority_owner.
C35_SeedArgsRoundTrip ==
    (SeedArgsReturned /\ SeedLenMatches)
    => /\ call.result.ok
       /\ call.result.val.stake_authorize = call.args.stake_authorize
       /\ call.result.val.authority_seed_len = call.args.authority_seed_len
       /\ call.result.val.authority_seed = call.args.authority_seed
       /\ call.result.val.authority_owner = call.args.authority_owner

\* The round trip for the seeds of at least 4 bytes.
SeedArgsRoundTripFromFourBytes ==
    (SeedArgsReturned /\ SeedLenMatches /\ Len(call.args.authority_seed) >= 4)
    => call.result = Ok(call.args)

\* A seed of fewer than 4 bytes is turned down for its size.
SeedArgsShortSeedTooSmall ==
    (SeedArgsReturned /\ SeedLenMatches /\ Len(call.args.authority_seed) < 4)
    => call.result = Err("AccountDataTooSmall")

SeedArgsLongSeedReturned ==
    /\ SeedArgsReturned /\ SeedLenMatches
    /\ Len(call.args.authority_seed) = 12
    /\ call.result.ok

SeedArgsEmptySeedRejected ==
    /\ SeedArgsReturned /\ SeedLenMatches
    /\ Len(call.args.authority_seed) = 0
    /\ ~call.result.ok

\* process_delegate was called with its five accounts on an Initialized
\* record whose staker signed.
FirstDelegation ==
    /\ call.op = "delegate"
    /\ call.accounts_len >= 5
    /\ call.pre[call.stake_account].state.tag = "Initialized"
    /\ call.pre[call.stake_account].state.meta.authorized.staker \in call.signers

\* lamports - rent_exempt_reserve (saturating) of the account before the call.
FirstDelegationAmount ==
    saturating_sub(call.pre[call.stake_account].lamports,
                   call.pre[call.stake_account].state.meta.rent_exempt_reserve)

\* The record a first delegation writes, with the given stake.
FirstDelegationRecord(stake) ==
    StakeState(call.pre[call.stake_account].state.meta,
               [delegation |-> [voter_pubkey |-> call.vote_key, stake |-> stake,
                                activation_epoch |-> clock.epoch,
                                deactivation_epoch |-> EPOCH_MAX],
                credits_observed |-> VoteCreditsOf(call.vote_key)],
               StakeFlagsEmpty)

\* C36: first delegation.  process_delegate on an Initialized record with a
\* staker signature writes Delegated(meta unchanged, target = the vote
\* account, stake = lamports - rent_exempt_reserve, activation_epoch = clock
\* epoch, deactivation_epoch = sentinel, credits_observed = the vote
\* account's credits, empty flags); when lamports - reserve (saturating) is
\* below the minimum delegation it fails with InsufficientDelegation and
\* writes nothing.
C36_FirstDelegation ==
    FirstDelegation
    => IF FirstDelegationAmount < get_minimum_delegation
       THEN /\ call.result = Err("InsufficientDelegation")
            /\ accounts = call.pre
       ELSE /\ call.result = Ok(Unit)
            /\ accounts = [call.pre EXCEPT ![call.stake_account].state =
                               FirstDelegationRecord(FirstDelegationAmount)]

\* The same with the stake the code stores: the amount's big-endian bytes
\* read back as little-endian.
FirstDelegationStoresSwappedAmount ==
    FirstDelegation
    => IF FirstDelegationAmount < get_minimum_delegation
       THEN /\ call.result = Err("InsufficientDelegation")
            /\ accounts = call.pre
       ELSE /\ call.result = Ok(Unit)
            /\ accounts = [call.pre EXCEPT ![call.stake_account].state =
                               FirstDelegationRecord(
                                   bytes_to_u64(to_be_bytes(FirstDelegationAmount)))]

FirstDelegationDone ==
    /\ FirstDelegation
    /\ call.result = Ok(Unit)
    /\ FirstDelegationAmount = 3
    /\ accounts[call.stake_account].state.stake.delegation.stake = 3 * ByteBase

\* The sum of the lamport balances of the stake accounts.
RECURSIVE SumLamports(_, _)
SumLamports(accs, ids) ==
    IF ids = {} THEN 0
    ELSE LET id == CHOOSE x \in ids : TRUE
         IN  accs[id].lamports + SumLamports(accs, ids \ {id})

TotalLamports(accs) == SumLamports(accs, AccountIds)

MergeOrMoveDone == call.op \in {"merge", "move_lamports"}

\* A successful move debits the source and credits the destination by the
\* amount asked for, and changes no stored record.
MoveExact ==
    (MoveDone /\ call.result.ok)
    => /\ accounts[call.source].lamports
            = call.pre[call.source].lamports - call.lamports
       /\ accounts[call.destination].lamports
            = call.pre[call.destination].lamports + call.lamports
       /\ \A id \in AccountIds : accounts[id].state = call.pre[id].state

\* C37: lamport conservation over sequences.  Every process_merge and
\* process_move_lamports call, successful or failed, leaves the sum of the
\* lamport balances of the stake accounts what it was, so the sum is
\* constant over any sequence of them; a successful process_move_lamports
\* debits the source and credits the destination by exactly the requested
\* amount and changes no stored record.
C37_LamportConservation ==
    /\ MergeOrMoveDone => TotalLamports(accounts) = TotalLamports(call.pre)
    /\ MoveExact

\* Conservation for the calls that succeed.
LamportConservationOnSuccess ==
    /\ (MergeOrMoveDone /\ call.result.ok)
       => TotalLamports(accounts) = TotalLamports(call.pre)
    /\ MoveExact

\* A successful merge and a successful move that carried lamports across.
LamportsMergedAcross ==
    /\ call.op = "merge" /\ call.result.ok
    /\ call.pre[call.src].lamports > 0
    /\ accounts[call.src].lamports = 0
    /\ accounts[call.dest].lamports
         = call.pre[call.dest].lamports + call.pre[call.src].lamports

LamportsMovedAcross ==
    /\ MoveDone /\ call.result.ok
    /\ accounts[call.destination].lamports
         = call.pre[call.destination].lamports + call.lamports

\* A failed call that lost lamports.
LamportsLostOnFailure ==
    /\ MergeOrMoveDone /\ ~call.result.ok
    /\ TotalLamports(accounts) < TotalLamports(call.pre)

DoSetLookupReturned == call.op = "do_set_lookup_return"

\* The field of the lockup after the call: the supplied value when present,
\* the stored one when absent.
LockupFieldSet(supplied, stored) == IF supplied.some THEN supplied.val ELSE stored

\* C38: a successful set_lockup overwrites exactly the lockup fields the
\* LockupArgs supply (unix_timestamp, epoch, custodian, each on its own) and
\* leaves every absent lockup field, both authorities, the minimum balance,
\* the delegation and the flags unchanged; a rejected set_lockup changes
\* nothing.
C38_SetLockupFrame ==
    DoSetLookupReturned
    => LET id == call.stake_account
           before == call.pre[id].state
           after == accounts[id].state
       IN  IF call.result.ok
           THEN /\ after.tag = before.tag
                /\ after.meta.lockup.unix_timestamp
                     = LockupFieldSet(call.lockup.unix_timestamp,
                                      before.meta.lockup.unix_timestamp)
                /\ after.meta.lockup.epoch
                     = LockupFieldSet(call.lockup.epoch, before.meta.lockup.epoch)
                /\ after.meta.lockup.custodian
                     = LockupFieldSet(call.lockup.custodian,
                                      before.meta.lockup.custodian)
                /\ after.meta.authorized = before.meta.authorized
                /\ after.meta.rent_exempt_reserve = before.meta.rent_exempt_reserve
                /\ before.tag = "Stake"
                   => after.stake = before.stake /\ after.flags = before.flags
                /\ accounts[id].lamports = call.pre[id].lamports
                /\ \A other \in AccountIds \ {id} :
                       accounts[other] = call.pre[other]
           ELSE accounts = call.pre

\* A successful call on a delegated record with flags that supplies the
\* unix_timestamp alone and changes it.
C38_Witness ==
    /\ DoSetLookupReturned
    /\ call.result.ok
    /\ call.pre[call.stake_account].state.tag = "Stake"
    /\ call.pre[call.stake_account].state.flags # StakeFlagsEmpty
    /\ call.lockup = LockupArgs(Some(1), None, None)
    /\ call.pre[call.stake_account].state.meta.lockup = EpochLockup
    /\ accounts[call.stake_account].state.meta.lockup
         = [unix_timestamp |-> 1, epoch |-> 2, custodian |-> "C"]

\* A call rejected by the gate of Meta::set_lockup.
C38_WitnessRejected ==
    /\ DoSetLookupReturned
    /\ call.result = Err("MissingRequiredSignature")
    /\ call.lockup = LockupArgs(Some(1), Some(3), Some("N"))

\* A set_lockup or an authorize call that gets as far as
\* try_get_stake_state_mut: well-formed data and account list, a record with
\* a Meta for set_lockup, the new authority's signature for authorize.
ReachesOwnerCheck ==
    \/ SetLockupOnMeta
    \/ /\ AuthorizeDone
       /\ call.accounts_len >= 4
       /\ call.new_authority \in call.signers

\* C39: the owner check on the writable record.  try_get_stake_state_mut
\* fails with InvalidAccountOwner exactly when the account is not owned by
\* the stake program and yields the record of every account the stake
\* program owns, so a set_lockup with the signature its gate asks for on a
\* program-owned Initialized or Delegated account succeeds.
C39_OwnerCheck ==
    /\ ReachesOwnerCheck
       => (call.result = Err("InvalidAccountOwner") <=> call.owner # ID)
    /\ (SetLockupOnMeta /\ call.owner = ID /\ GateSignerPresent)
       => call.result.ok

\* What the code does: the accounts of the stake program are the ones
\* turned down.
OwnerCheckInverted ==
    ReachesOwnerCheck
    => (call.result = Err("InvalidAccountOwner") <=> call.owner = ID)

\* A set_lockup on an account of the stake program with every signature,
\* turned down for its owner.
OwnedAccountTurnedDown ==
    /\ SetLockupOnMeta
    /\ call.owner = ID
    /\ GateSignerPresent
    /\ call.result = Err("InvalidAccountOwner")

\* An authorize on an account of another program that goes through.
OtherOwnerAuthorized ==
    /\ AuthorizeDone
    /\ call.owner # ID
    /\ call.result.ok

Min(a, b) == IF a <= b THEN a ELSE b

\* C40: bounds of the merged credits.  For every successful credit-weighted
\* merge with total stake > 0, the new credits_observed lies between the
\* smaller and the larger of the two input credits_observed (inclusive), and
\* new_credits * new_stake is at least the sum of each side's credits * stake
\* and exceeds it by less than new_stake.
C40_MergedCreditsBounds ==
    (CreditsReturned /\ call.result.ok /\ CallTotal > 0)
    => LET merged_credits == call.result.val.credits_observed
           merged_stake == call.result.val.delegation.stake
       IN  /\ merged_credits >= Min(CallCredits, call.absorbed_credits_observed)
           /\ merged_credits <= Max(CallCredits, call.absorbed_credits_observed)
           /\ merged_credits * merged_stake >= CallWeighted
           /\ merged_credits * merged_stake < CallWeighted + merged_stake

\* A merge whose weighted average is no whole number and is rounded up, and
\* one with all the weight on the larger credits.
C40_Witness ==
    /\ CreditsReturned /\ call.result.ok
    /\ CallStake = 2 /\ CallCredits = 10
    /\ call.absorbed_lamports = 1 /\ call.absorbed_credits_observed = 20
    /\ call.result.val.credits_observed = 14
    /\ call.result.val.delegation.stake = 3

C40_WitnessOneSided ==
    /\ CreditsReturned /\ call.result.ok
    /\ CallStake = 0 /\ CallCredits = 0
    /\ call.absorbed_lamports = 500
    /\ call.absorbed_credits_observed = U64_MAX
    /\ call.result.val.credits_observed = U64_MAX

====
